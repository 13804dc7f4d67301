------------------------------ MODULE RetryDelay ------------------------------
(***************************************************************************)
(* How long a retry waits: domain/backoff.py and domain/retry_after.py.    *)
(*                                                                         *)
(* Delays are milliseconds, instants microseconds, a date of the header    *)
(* whole seconds.  A header is what was received of Retry-After: how often *)
(* it occurred, in which form, and what it says.                           *)
(***************************************************************************)
EXTENDS Integers

CONSTANTS
    BaseDelay,        \* BASE_DELAY_MS
    MaxCap,           \* MAX_CAP_MS
    MaxServerDelay,   \* MAX_SERVER_DELAY_MS
    IntDigits         \* the digits Python's int() converts (4300)

ASSUME DelayAssumption ==
    /\ BaseDelay \in Nat /\ MaxCap \in Nat
    /\ MaxServerDelay \in Nat /\ MaxServerDelay % 1000 = 0
    /\ IntDigits \in Nat

Second == 1000 * 1000

-----------------------------------------------------------------------------
(* backoff.py *)

Cap(n) ==
    LET doubled == BaseDelay * 2 ^ (n - 1)
    IN  IF doubled < MaxCap THEN doubled ELSE MaxCap

-----------------------------------------------------------------------------
(* retry_after.py *)

(* `digits` counts leading zeros, too: a delta of n seconds may be written  *)
(* with any number of digits that is large enough.                          *)
Header == [form : {"missing", "repeated", "negative", "delta", "date", "malformed"},
           value : Int, digits : Nat]

Accepted(ms) == [kind |-> "accepted", ms |-> ms]
Rejected     == [kind |-> "rejected", ms |-> 0]
Raised       == [kind |-> "raised", ms |-> 0]

AcceptDelay(ms) == IF ms > MaxServerDelay THEN Rejected ELSE Accepted(ms)

(* Mistake: a fraction of a millisecond is dropped. *)
Truncated(d) == {d \div 1000}

(* math.ceil(delta.total_seconds() * 1000).  The product is a float, so a   *)
(* whole number of milliseconds may come out one too large, unless it is a  *)
(* whole number of seconds.                                                 *)
RoundedUp(d) ==
    IF d % 1000 = 0 /\ d % Second # 0
    THEN {d \div 1000, d \div 1000 + 1}
    ELSE {(d + 999) \div 1000}

(* A date is compared with the clock; it must lie in the future. *)
ParsedDate(instant, now) ==
    IF instant <= now THEN {Rejected}
                      ELSE {AcceptDelay(ms) : ms \in RoundedUp(instant - now)}

(* What parse_retry_after may return at the instant `now`; int() raises for *)
(* a number of too many digits, whatever its value.                         *)
Parsed(h, now) ==
    CASE h.form = "delta" -> IF h.digits > IntDigits THEN {Raised}
                                                     ELSE {AcceptDelay(h.value * 1000)}
      [] h.form = "date"  -> ParsedDate(h.value * Second, now)
      [] OTHER            -> {Rejected}

(* effective_delay_ms of the policy's delay and of the parsed header. *)
Effective(policy, result) ==
    IF result.kind = "accepted" /\ result.ms > policy THEN result.ms ELSE policy

(* The delays a retry after request n may wait when 429 came with h. *)
Delays(n, h, now) ==
    {Effective(policy, result) :
        policy \in 0 .. Cap(n), result \in {q \in Parsed(h, now) : q.kind # "raised"}}

-----------------------------------------------------------------------------
(* Reference: what the feature specification says of the header. *)

(* The instant the server asks for, if it asks for one after `now`. *)
AsksFor(h, now) ==
    CASE h.form = "delta" -> now + h.value * Second
      [] h.form = "date"  -> h.value * Second
      [] OTHER            -> now

(* A delay is no shorter than the server asks for, if that is in the future *)
(* and within the maximum, and not two milliseconds longer, unless the      *)
(* policy alone makes it so.                                                *)
Keeps(n, h, now, delay) ==
    LET ask == AsksFor(h, now) - now IN
    /\ delay >= 0
    /\ ask > 0 /\ ask <= MaxServerDelay * 1000 => delay * 1000 >= ask
    /\ \/ delay <= Cap(n)
       \/ ask <= MaxServerDelay * 1000 /\ delay * 1000 < ask + 2000

=============================================================================
