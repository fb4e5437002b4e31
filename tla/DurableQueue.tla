---------------------------- MODULE DurableQueue ----------------------------
(***************************************************************************)
(* What the durable spool promises its users (the Spool interface of       *)
(* traffic/adapters/events/spool.go): a record that was stored stays       *)
(* in the queue until the sink has accepted it at least once or it is too  *)
(* old to keep, and once it has left the queue it never comes back.        *)
(***************************************************************************)
EXTENDS Naturals

CONSTANT Record

VARIABLES
    written,    \* records ever stored
    present,    \* records in the queue
    accepted,   \* records the sink has accepted at least once
    old         \* records past their retention age

qvars == <<written, present, accepted, old>>

QInit == written = {} /\ present = {} /\ accepted = {} /\ old = {}

\* A step of the queue's owner: it may drop records that may go, and store new
\* ones; recovery and purging happen in the same step as the operation asked for.
Update(gone, new) ==
    /\ gone \subseteq present \intersect (accepted \union old)
    /\ new \intersect written = {}
    /\ present' = (present \ gone) \union new
    /\ written' = written \union new
    /\ UNCHANGED <<accepted, old>>

\* The sink accepts records; it may accept one more than once, and late.
Accept(S) ==
    /\ S \subseteq written
    /\ accepted' = accepted \union S
    /\ UNCHANGED <<written, present, old>>

\* Time passes.
GrowOld(S) ==
    /\ S \subseteq written
    /\ old' = old \union S
    /\ UNCHANGED <<written, present, accepted>>

QNext ==
    \/ \E gone, new \in SUBSET Record : Update(gone, new)
    \/ \E S \in SUBSET Record : Accept(S) \/ GrowOld(S)

QSpec == QInit /\ [][QNext]_qvars
=============================================================================
