--------------------------- MODULE RetryDelayProofs ---------------------------
(***************************************************************************)
(* Proofs about RetryDelay for every base delay, cap and maximum: what the *)
(* delay functions return for every header, clock and ordinal.             *)
(***************************************************************************)
EXTENDS RetryDelay, TLAPS

(* Rounding up to milliseconds, as a float or exactly, loses nothing of the  *)
(* interval and adds at most a millisecond; an interval within the maximum   *)
(* stays within it, because the maximum is whole seconds.                    *)
LEMMA RoundingKeepsInterval ==
    ASSUME NEW d \in Nat, NEW ms \in RoundedUp(d)
    PROVE  /\ ms \in Nat
           /\ ms * 1000 >= d
           /\ ms * 1000 < d + 2000
           /\ d <= MaxServerDelay * 1000 => ms <= MaxServerDelay
<1>1. CASE d % 1000 = 0 /\ d % Second # 0
  <2>1. ms = d \div 1000 \/ ms = d \div 1000 + 1
    BY <1>1 DEF RoundedUp
  <2>2. d = (d \div 1000) * 1000
    BY <1>1, SMT
  <2>3. d # MaxServerDelay * 1000
    BY <1>1, DelayAssumption, SMT DEF Second
  <2>. QED
    BY <2>1, <2>2, <2>3, DelayAssumption, SMT
<1>2. CASE ~(d % 1000 = 0 /\ d % Second # 0)
  <2>1. ms = (d + 999) \div 1000
    BY <1>2 DEF RoundedUp
  <2>. QED
    BY <2>1, DelayAssumption, SMT
<1>. QED
  BY <1>1, <1>2

(* What the parser accepts is what the server asks for, rounded up; it is    *)
(* accepted if it is asked for in the future and within the maximum.         *)
AsAsked(result, ask) ==
    /\ result.kind = "accepted" =>
          /\ result.ms \in Int
          /\ result.ms * 1000 >= ask
          /\ result.ms * 1000 < ask + 2000
          /\ result.ms <= MaxServerDelay
    /\ result.kind # "accepted" => ask <= 0 \/ ask > MaxServerDelay * 1000

(* Every result of parse_retry_after is as AsAsked says. *)
LEMMA ParsedIsAsked ==
    ASSUME NEW h \in Header, NEW now \in Nat, NEW result \in Parsed(h, now),
           result.kind # "raised"
    PROVE  AsAsked(result, AsksFor(h, now) - now)
<1> DEFINE ask == AsksFor(h, now) - now
<1>1. h.value \in Int
  BY DEF Header
<1>2. CASE h.form = "delta"
  <2>1. result = AcceptDelay(h.value * 1000)
    BY <1>2 DEF Parsed, Raised
  <2>2. ask = h.value * 1000000
    BY <1>1, <1>2, SMT DEF AsksFor, Second
  <2>. QED
    BY <1>1, <2>1, <2>2, DelayAssumption, SMT DEF AsAsked, AcceptDelay, Accepted, Rejected
<1>3. CASE h.form = "date"
  <2>1. result \in ParsedDate(h.value * Second, now)
    BY <1>3 DEF Parsed
  <2>2. ask = h.value * Second - now /\ h.value * Second \in Int
    BY <1>1, <1>3, SMT DEF AsksFor, Second
  <2>3. CASE h.value * Second <= now
    BY <2>1, <2>2, <2>3, SMT DEF AsAsked, ParsedDate, Rejected
  <2>4. CASE ~(h.value * Second <= now)
    <3>1. PICK ms \in RoundedUp(ask) : result = AcceptDelay(ms)
      BY <2>1, <2>2, <2>4 DEF ParsedDate
    <3>2. ask \in Nat
      BY <2>2, <2>4, SMT
    <3>3. /\ ms \in Nat
          /\ ms * 1000 >= ask
          /\ ms * 1000 < ask + 2000
          /\ ask <= MaxServerDelay * 1000 => ms <= MaxServerDelay
      <4> HIDE DEF ask
      <4>. QED
        BY <3>2, RoundingKeepsInterval, SMT
    <3>. QED
      BY <3>1, <3>2, <3>3, DelayAssumption, SMT DEF AsAsked, AcceptDelay, Accepted, Rejected
  <2>. QED
    BY <2>3, <2>4
<1>4. CASE h.form \notin {"delta", "date"}
  <2>1. result = Rejected
    BY <1>4 DEF Parsed
  <2>2. ask = 0
    BY <1>4, SMT DEF AsksFor
  <2>. QED
    BY <2>1, <2>2, SMT DEF AsAsked, Rejected
<1>. QED
  BY <1>2, <1>3, <1>4

(* Every delay the program may choose after a 429 keeps what the feature     *)
(* specification says of Retry-After, whatever the header, the clock, the    *)
(* ordinal and the jitter: effective_delay_ms of policy_delay_ms and         *)
(* parse_retry_after.                                                        *)
THEOREM DelaysKeepServer ==
    ASSUME NEW n, Cap(n) \in Int, NEW h \in Header, NEW now \in Nat,
           NEW delay \in Delays(n, h, now)
    PROVE  delay \in Nat /\ Keeps(n, h, now, delay)
<1>1. PICK policy \in 0 .. Cap(n), result \in {q \in Parsed(h, now) : q.kind # "raised"} :
         delay = Effective(policy, result)
  BY DEF Delays
<1> DEFINE ask == AsksFor(h, now) - now
<1>2. AsAsked(result, ask)
  BY ParsedIsAsked
<1>3. ask \in Int
  BY SMT DEF Header, AsksFor, Second
<1> HIDE DEF ask
<1>4. /\ delay \in Nat
      /\ ask > 0 /\ ask <= MaxServerDelay * 1000 => delay * 1000 >= ask
      /\ \/ delay <= Cap(n)
         \/ ask <= MaxServerDelay * 1000 /\ delay * 1000 < ask + 2000
  BY <1>1, <1>2, <1>3, DelayAssumption, SMT DEF AsAsked, Effective
<1>. QED
  BY <1>4 DEF Keeps, ask

=============================================================================
