--------------------------- MODULE MCClientExchange ---------------------------
(* ClientExchange on two requests, one or two keys and two payloads.        *)
EXTENDS ClientExchange, TLC

CONSTANTS r1, r2, k1, k2, p1, p2

Requests == {r1, r2}
Keys     == {k1, k2}
Payloads == {p1, p2}
Limits   == {1, 2}

Ask(op, k, p) == [op |-> op, key |-> k, payload |-> p, valid |-> TRUE]
Two(a, b) == (r1 :> a) @@ (r2 :> b)

NoPlan == [rule \in Operation \X (Keys \cup {AnyKey}) |-> "none"]
Plan(op, k, scenario) == [NoPlan EXCEPT ![op, k] = scenario]

Post    == Ask("submission", k1, p1)
Get     == Ask("reconciliation", k1, p1)
Rival   == Ask("submission", k1, p2)
Wrong   == Ask("reconciliation", k1, p2)
Elsewhere == Ask("submission", k2, p1)
Invalid == [Post EXCEPT !.valid = FALSE]
Nobody  == Ask("none", k1, p1)

At1(call_, plan_) == [call |-> call_, plan |-> plan_, peer |-> "simulator"]

(* Rival submissions under the presets that differ in what they leave       *)
(* behind; a submission and a query that both wait, that both fail, and     *)
(* that disagree; a rule for a key beside one for any key; a submission that *)
(* is not valid beside one that is; and one request to a program that is not the simulator.         *)
Workloads ==
    {At1(Two(Post, Rival), Plan("submission", AnyKey, s)) :
        s \in {"none", "429_then_success", "processed_then_disconnect",
               "processed_without_response"}}
    \cup {At1(Two(Post, Get),
              [Plan("reconciliation", AnyKey, "reconciliation_timeout") EXCEPT
                  !["submission", k1] = "processed_without_response"]),
          At1(Two(Post, Get),
              [Plan("reconciliation", AnyKey, "always_500") EXCEPT
                  !["submission", k1] = "processed_then_500"]),
          At1(Two(Post, Wrong), NoPlan),
          At1(Two(Post, Elsewhere),
              [Plan("submission", AnyKey, "500_then_success") EXCEPT
                  !["submission", k1] = "connect_timeout"]),
          At1(Two(Post, Invalid), NoPlan)}
    \cup {[call |-> Two(c, Nobody), plan |-> NoPlan, peer |-> "stranger"] : c \in {Post, Get}}

(* Milliseconds, with a maximum delay of two seconds; microseconds.         *)
Plain(form) == [form |-> form, value |-> 0, digits |-> 1]
HeaderSet ==
    {Plain("missing"), Plain("repeated"), Plain("negative"), Plain("malformed")}
    \cup {[form |-> f, value |-> n, digits |-> 1] : f \in {"delta", "date"}, n \in 0 .. 3}
    \cup {[form |-> "delta", value |-> 1, digits |-> 3]}
InstantSet == {0, 1, 998500, 999000, 999999}
OrdinalSet == 1 .. 3
=============================================================================
