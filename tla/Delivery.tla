------------------------------- MODULE Delivery -------------------------------
(***************************************************************************)
(* What a user of the program is promised about one Job Entry and one key: *)
(* it takes effect at the service at most once; it is called succeeded     *)
(* only after it took effect and failed only if it never does; "unknown"   *)
(* is the answer when the program cannot tell, and then the effect may     *)
(* still come.  Verdicts are final.  Nothing is said of attempts, leases,  *)
(* invocations or time.  SubmitWorkflow is shown to implement this module. *)
(***************************************************************************)
EXTENDS Integers

CONSTANT Key

VARIABLES
    verdict,   \* per key: "open" until the program has decided
    effect     \* per key: how often the service processed the Job Entry

deliveryVars == <<verdict, effect>>

Verdict == {"open", "succeeded", "failed", "unknown"}

DeliveryInit ==
    /\ verdict = [k \in Key |-> "open"]
    /\ effect = [k \in Key |-> 0]

TakeEffect(k) ==
    /\ verdict[k] \in {"open", "unknown"}
    /\ effect[k] = 0
    /\ effect' = [effect EXCEPT ![k] = 1]
    /\ UNCHANGED verdict

(* The program decides; it may give up whether or not there was an effect. *)
Decide(k, v) ==
    /\ verdict[k] = "open"
    /\ v = "succeeded" => effect[k] = 1
    /\ v = "failed" => effect[k] = 0
    /\ verdict' = [verdict EXCEPT ![k] = v]
    /\ UNCHANGED effect

DeliveryNext ==
    \E k \in Key : \/ TakeEffect(k)
                   \/ \E v \in {"succeeded", "failed", "unknown"} : Decide(k, v)

DeliverySpec == DeliveryInit /\ [][DeliveryNext]_deliveryVars

=============================================================================
