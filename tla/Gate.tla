--------------------------------- MODULE Gate ---------------------------------
(****************************************************************************)
(* What SOL promises of every request it is sent: the verdict on record     *)
(* comes first, a request that was put to humans is settled only by what a  *)
(* human decided, and the action is performed at most once, under a verdict *)
(* of "approved".  Nothing is said of threads, sessions, polls or clocks.   *)
(****************************************************************************)
EXTENDS Naturals

CONSTANT Requests

VARIABLES
    verdict,   \* verdict[r]: the verdict on record
    asked,     \* asked[r]: humans were asked
    consent,   \* consent[r]: what humans have decided, changes of mind included
    effects    \* effects[r]: how often the action was performed

vars == <<verdict, asked, consent, effects>>

Human == {"approved", "denied"}

Init ==
    /\ verdict = [r \in Requests |-> "none"]
    /\ asked = [r \in Requests |-> FALSE]
    /\ consent = [r \in Requests |-> {}]
    /\ effects = [r \in Requests |-> 0]

Record(r) ==
    /\ verdict[r] = "none"
    /\ \E v \in {"shadow", "queued", "approved"} :
         /\ verdict' = [verdict EXCEPT ![r] = v]
         /\ asked' = [asked EXCEPT ![r] = v = "queued"]
    /\ UNCHANGED <<consent, effects>>

Decide(r) ==
    /\ asked[r]
    /\ \E v \in Human : consent' = [consent EXCEPT ![r] = @ \union {v}]
    /\ UNCHANGED <<verdict, asked, effects>>

Settle(r) ==
    /\ verdict[r] = "queued"
    /\ \E v \in consent[r] : verdict' = [verdict EXCEPT ![r] = v]
    /\ UNCHANGED <<asked, consent, effects>>

Perform(r) ==
    /\ verdict[r] = "approved"
    /\ effects[r] = 0
    /\ effects' = [effects EXCEPT ![r] = 1]
    /\ UNCHANGED <<verdict, asked, consent>>

Next == \E r \in Requests : Record(r) \/ Decide(r) \/ Settle(r) \/ Perform(r)

Spec == Init /\ [][Next]_vars

=============================================================================
