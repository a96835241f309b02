-------------------------------- MODULE TonMC --------------------------------
(***************************************************************************)
(* The TON modules for TLC, in scenes that share no state: the requests of *)
(* a wallet, with the constants of the run, of a W5 wallet that replaces   *)
(* them, or of an older one that is asked about until it knows; and the    *)
(* trace of one that ran.  A state of one scene keeps the others' at its   *)
(* start.                                                                  *)
(***************************************************************************)
EXTENDS TonRequestsMC

CONSTANTS
    Owners, MinDepths, MaxHead, RefLag, Faults,         \* TonTrace
    Scenes          \* which of the scenes a run plays

ASSUME TonMCAssumption ==
    /\ MaxHead \in Nat /\ RefLag \in Nat /\ MinDepths \subseteq Nat
    /\ Scenes \subseteq {"requests", "replaced", "decided", "trace"}
    /\ Faults \subseteq {"gap", "left_out", "altered"}

VARIABLES
    scene,
    chain, head, coins, jettons, read, answer

traceVars == <<chain, head, coins, jettons, read, answer>>
allVars == <<scene, vars, traceVars>>

\* A wallet without a fallback and with a clock in step, for long enough to replace a
\* request; an older wallet of that kind, which checks the expiry before the seqno.
W5 == INSTANCE TonRequests
         WITH HasFallback <- FALSE, ClockSkews <- InStep, SignUntil <- MaxTime
Old == INSTANCE TonRequests
         WITH Version <- "legacy", HasFallback <- FALSE, ClockSkews <- InStep
T == INSTANCE TonTrace

\* One request, and the other only after it.
First == CHOOSE r \in Requests : TRUE
Alone == \A r \in Requests \ {First} : req'[r] = Unsigned
InOrder == req'[First] = Unsigned => Alone

MCInit ==
    /\ scene \in Scenes
    /\ IF scene = "replaced" THEN W5!Init ELSE Init
    /\ T!Init

Play(name, step) == scene = name /\ step /\ UNCHANGED <<scene, traceVars>>

MCNext ==
    \/ Play("requests", Next /\ Alone)
    \/ Play("replaced", W5!Next /\ InOrder)
    \/ Play("decided", Old!Next /\ Alone)
    \/ scene = "trace" /\ T!Next /\ UNCHANGED <<scene, vars>>

MCSpec == MCInit /\ [][MCNext]_<<scene, vars, traceVars>>

\* TonRequests' fairness, for the wallet whose request is to be decided.
MCFairSpec ==
    /\ MCSpec
    /\ WF_allVars(Play("decided", Old!Tick))
    /\ \A p \in Old!Providers : SF_allVars(Play("decided", Old!Advance(p)))
    /\ SF_allVars(Play("decided", Old!Ask(First, None)))
    /\ SF_allVars(Play("decided", Old!ReadSeqno))
    /\ SF_allVars(Play("decided", Old!ReadTrace))
    /\ SF_allVars(Play("decided", Old!ReadHead))

\* The properties of the instances: see there.
OldWalletDecides == scene = "decided" => IsDecided(First)
FinalTransfersStay == T!FinalTransfersStay
VerdictIsTrue == T!VerdictIsTrue
=============================================================================
