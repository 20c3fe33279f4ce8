-------------------------- MODULE FileCommitProofs --------------------------
(***************************************************************************)
(* Proofs about FileCommit, for any attempts, contents and inodes and any  *)
(* number of writes of other programs, failures and crashes: the variables *)
(* keep their types, and the bytes a commit displaced without knowing them *)
(* stay reachable.  TypeOK /\ EvidenceIsKept is inductive; there is one    *)
(* lemma per action, in the order of the actions.  The second part proves  *)
(* that the commit keeps the promise of FileReplacement.                   *)
(***************************************************************************)
EXTENDS FileCommit, TLAPS

IInv == TypeOK /\ EvidenceIsKept

USE CommitAssumption
    DEF Inodes, File, FileOrNothing, Terminal, JournalStates, RawEntries,
        Acknowledgements, LaneStates, FaultKinds

\* Nothing is displaced and nothing is on disk in an initial state.
LEMMA InitEstablishes == Init => IInv
<1> SUFFICES ASSUME Init PROVE IInv
  OBVIOUS
<1> USE DEF Init, Idle
<1>1. TypeOK
  BY DEF TypeOK
<1>2. Ownership
  BY DEF Ownership, LivePhases
<1>3. Location
  BY DEF Location
<1>4. Evidence
  BY DEF Evidence, Consumable, Unexpected, Preserved
<1> QED BY <1>1, <1>2, <1>3, <1>4 DEF IInv, EvidenceIsKept

------------------------------------------------------------------------------
(* Other programs and the committer.                                        *)

\* Another program changes the path, never a candidate, a journal or an entry.
LEMMA ExternalWriteKeeps ==
  ASSUME IInv, ExternalWrite
  PROVE  IInv'
<1> USE DEF ExternalWrite,
            fileVars, journalVars, docVars, boundVars
<1>0. TypeOK /\ Ownership /\ Location /\ Evidence
  BY DEF IInv, EvidenceIsKept
<1>1. TypeOK'
  BY <1>0 DEF TypeOK, Ownership, LivePhases
<1>2. Ownership'
  BY <1>0 DEF Ownership, TypeOK, LivePhases
<1>3. Location'
  BY <1>0 DEF Location, Ownership, TypeOK, LivePhases
<1>4. Evidence'
  BY <1>0 DEF Evidence, Consumable, Unexpected, Preserved, Location, Ownership,
              TypeOK, LivePhases
<1> QED BY <1>1, <1>2, <1>3, <1>4 DEF IInv, EvidenceIsKept

\* Reading the file only moves the baseline.
LEMMA ReadTargetKeeps ==
  ASSUME IInv, ReadTarget
  PROVE  IInv'
<1> USE DEF ReadTarget,
            fileVars, journalVars, docVars, boundVars
<1>0. TypeOK /\ Ownership /\ Location /\ Evidence
  BY DEF IInv, EvidenceIsKept
<1>1. TypeOK'
  BY <1>0 DEF TypeOK, Ownership, LivePhases
<1>2. Ownership'
  BY <1>0 DEF Ownership, TypeOK, LivePhases
<1>3. Location'
  BY <1>0 DEF Location, Ownership, TypeOK, LivePhases
<1>4. Evidence'
  BY <1>0 DEF Evidence, Consumable, Unexpected, Preserved, Location, Ownership,
              TypeOK, LivePhases
<1> QED BY <1>1, <1>2, <1>3, <1>4 DEF IInv, EvidenceIsKept

\* A new attempt starts with its own inode and nothing displaced.
LEMMA PrepareCandidateKeeps ==
  ASSUME IInv, NEW c \in Attempts, PrepareCandidate(c)
  PROVE  IInv'
<1> USE DEF PrepareCandidate, MayCommit,
            fileVars, journalVars, docVars, boundVars
<1>0. TypeOK /\ Ownership /\ Location /\ Evidence
  BY DEF IInv, EvidenceIsKept
<1>1. TypeOK'
  BY <1>0 DEF TypeOK, Ownership, LivePhases
<1>2. Ownership'
  BY <1>0 DEF Ownership, TypeOK, LivePhases
<1>3. Location'
  BY <1>0 DEF Location, Ownership, TypeOK, LivePhases
<1>4. Evidence'
  BY <1>0 DEF Evidence, Consumable, Unexpected, Preserved, Location, Ownership,
              TypeOK, LivePhases
<1> QED BY <1>1, <1>2, <1>3, <1>4 DEF IInv, EvidenceIsKept

\* A refused attempt leaves no file behind.
LEMMA PrepareCandidateFailsKeeps ==
  ASSUME IInv, NEW c \in Attempts, PrepareCandidateFails(c)
  PROVE  IInv'
<1> USE DEF PrepareCandidateFails, MayCommit,
            fileVars, journalVars, docVars, boundVars
<1>0. TypeOK /\ Ownership /\ Location /\ Evidence
  BY DEF IInv, EvidenceIsKept
<1>f. faults' \in Nat
  BY <1>0 DEF TypeOK, Fault, NoFault
<1>1. TypeOK'
  BY <1>0, <1>f DEF TypeOK, Ownership, LivePhases
<1>2. Ownership'
  BY <1>0 DEF Ownership, TypeOK, LivePhases
<1>3. Location'
  BY <1>0 DEF Location, Ownership, TypeOK, LivePhases
<1>4. Evidence'
  BY <1>0 DEF Evidence, Consumable, Unexpected, Preserved, Location, Ownership,
              TypeOK, LivePhases
<1> QED BY <1>1, <1>2, <1>3, <1>4 DEF IInv, EvidenceIsKept

\* The committer owns its attempt from the journal on; a failure removes a
\* candidate that has displaced nothing.
LEMMA WriteJournalKeeps ==
  ASSUME IInv, NEW c \in Attempts, WriteJournal(c)
  PROVE  IInv'
<1> USE DEF WriteJournal,
            fileVars, journalVars, docVars, boundVars
<1>0. TypeOK /\ Ownership /\ Location /\ Evidence
  BY DEF IInv, EvidenceIsKept
<1>f. faults' \in Nat
  BY <1>0 DEF TypeOK, Fault, NoFault
<1>g. /\ journal' \in [Attempts -> JournalStates]
      /\ durable' \in [Attempts -> JournalStates]
      /\ cand' \in [Attempts -> FileOrNothing]
      /\ live' \in SUBSET Attempts
  BY <1>0 DEF TypeOK
<1>1. TypeOK'
  BY <1>0, <1>f, <1>g DEF TypeOK
<1>2. Ownership'
  BY <1>0 DEF Ownership, TypeOK, LivePhases
<1>3. Location'
  BY <1>0 DEF Location, Ownership, TypeOK, LivePhases
<1>4. Evidence'
  BY <1>0 DEF Evidence, Consumable, Unexpected, Preserved, Location, Ownership,
              TypeOK, LivePhases
<1> QED BY <1>1, <1>2, <1>3, <1>4 DEF IInv, EvidenceIsKept

\* The swap happens under a journal that is durable as "prepared".
LEMMA SwapKeeps ==
  ASSUME IInv, NEW c \in Attempts, Swap(c)
  PROVE  IInv'
<1> USE DEF Swap,
            fileVars, journalVars, docVars, boundVars
<1>0. TypeOK /\ Ownership /\ Location /\ Evidence
  BY DEF IInv, EvidenceIsKept
<1>1. TypeOK'
  BY <1>0 DEF TypeOK, Ownership, LivePhases
<1>2. Ownership'
  BY <1>0 DEF Ownership, TypeOK, LivePhases
<1>3. Location'
  BY <1>0 DEF Location, Ownership, TypeOK, LivePhases
<1>4. Evidence'
  BY <1>0 DEF Evidence, Consumable, Unexpected, Preserved, Location, Ownership,
              TypeOK, LivePhases
<1> QED BY <1>1, <1>2, <1>3, <1>4 DEF IInv, EvidenceIsKept

\* A refused swap displaced nothing.
LEMMA SwapFailsKeeps ==
  ASSUME IInv, NEW c \in Attempts, SwapFails(c)
  PROVE  IInv'
<1> USE DEF SwapFails,
            fileVars, journalVars, docVars, boundVars
<1>0. TypeOK /\ Ownership /\ Location /\ Evidence
  BY DEF IInv, EvidenceIsKept
<1>f. faults' \in Nat
  BY <1>0 DEF TypeOK, Fault, NoFault
<1>1. TypeOK'
  BY <1>0, <1>f DEF TypeOK, Ownership, LivePhases
<1>2. Ownership'
  BY <1>0 DEF Ownership, TypeOK, LivePhases
<1>3. Location'
  BY <1>0 DEF Location, Ownership, TypeOK, LivePhases
<1>4. Evidence'
  BY <1>0 DEF Evidence, Consumable, Unexpected, Preserved, Location, Ownership,
              TypeOK, LivePhases
<1> QED BY <1>1, <1>2, <1>3, <1>4 DEF IInv, EvidenceIsKept

\* Synchronizing the directories, or failing to, moves no bytes.
LEMMA FlushSwapKeeps ==
  ASSUME IInv, NEW c \in Attempts, FlushSwap(c)
  PROVE  IInv'
<1> USE DEF FlushSwap, Answer,
            fileVars, journalVars, docVars, boundVars
<1>0. TypeOK /\ Ownership /\ Location /\ Evidence
  BY DEF IInv, EvidenceIsKept
<1>f. faults' \in Nat
  BY <1>0 DEF TypeOK, Fault, NoFault
<1>1. TypeOK'
  BY <1>0, <1>f DEF TypeOK, Ownership, LivePhases
<1>2. Ownership'
  BY <1>0 DEF Ownership, TypeOK, LivePhases
<1>3. Location'
  BY <1>0 DEF Location, Ownership, TypeOK, LivePhases
<1>4. Evidence'
  BY <1>0 DEF Evidence, Consumable, Unexpected, Preserved, Location, Ownership,
              TypeOK, LivePhases
<1> QED BY <1>1, <1>2, <1>3, <1>4 DEF IInv, EvidenceIsKept

\* Only expected bytes are passed on to the acknowledgement.
LEMMA ReadDisplacedKeeps ==
  ASSUME IInv, NEW c \in Attempts, ReadDisplaced(c)
  PROVE  IInv'
<1> USE DEF ReadDisplaced, Answer,
            fileVars, journalVars, docVars, boundVars
<1>0. TypeOK /\ Ownership /\ Location /\ Evidence
  BY DEF IInv, EvidenceIsKept
<1>f. faults' \in Nat
  BY <1>0 DEF TypeOK, Fault, NoFault
<1>g. payload[c] \in Contents
  BY <1>0 DEF Ownership, LivePhases
<1>1. TypeOK'
  <2>1. CASE Answer(c, "contested") \/ Answer(c, "uncertain")
    BY <1>0, <1>f, <1>g, <2>1 DEF TypeOK
  <2>2. CASE /\ phase' = [phase EXCEPT ![c] = "verified"]
             /\ UNCHANGED <<baseline, current, payload, expected, answer, live>>
    BY <1>0, <1>f, <2>2 DEF TypeOK
  <2> QED BY <2>1, <2>2
<1>2. Ownership'
  BY <1>0 DEF Ownership, TypeOK, LivePhases
<1>3. Location'
  BY <1>0 DEF Location, Ownership, TypeOK, LivePhases
<1>4. Evidence'
  BY <1>0 DEF Evidence, Consumable, Unexpected, Preserved, Location, Ownership,
              TypeOK, LivePhases
<1> QED BY <1>1, <1>2, <1>3, <1>4 DEF IInv, EvidenceIsKept

\* The committer acknowledges only what is expected or was not displaced.
LEMMA CommitterAcknowledgesKeeps ==
  ASSUME IInv, NEW c \in Attempts, CommitterAcknowledges(c)
  PROVE  IInv'
<1> USE DEF CommitterAcknowledges, Acknowledge,
            fileVars, journalVars, docVars, boundVars
<1>0. TypeOK /\ Ownership /\ Location /\ Evidence
  BY DEF IInv, EvidenceIsKept
<1>1. TypeOK'
  BY <1>0 DEF TypeOK, Ownership, LivePhases
<1>2. Ownership'
  BY <1>0 DEF Ownership, TypeOK, LivePhases
<1>3. Location'
  BY <1>0 DEF Location, Ownership, TypeOK, LivePhases
<1>4. Evidence'
  BY <1>0 DEF Evidence, Consumable, Unexpected, Preserved, Location, Ownership,
              TypeOK, LivePhases
<1> QED BY <1>1, <1>2, <1>3, <1>4 DEF IInv, EvidenceIsKept

------------------------------------------------------------------------------
(* The acknowledgement.                                                     *)

\* What acknowledge records is always a terminal state.
LEMMA ReceiptTypes ==
  ASSUME ack \in Acknowledgements, NEW c \in Attempts, NEW r \in Receipts(c)
  PROVE  r \in Terminal
BY DEF Receipts, Inferred

\* An acknowledgement that fails leaves its files, and perhaps a receipt.
LEMMA AckThrowsKeeps ==
  ASSUME IInv, ack # Nothing, AckThrows,
         NEW r \in Terminal,
         \/ UNCHANGED journal
         \/ /\ journal[ack.attempt] # "none"
            /\ journal' = [journal EXCEPT ![ack.attempt] = r],
         UNCHANGED <<fileVars, durable, raw, ready, discarded, externals, crashes>>,
         faults' \in Nat
  PROVE  IInv'
<1> USE DEF fileVars, docVars
<1>0. TypeOK /\ Ownership /\ Location /\ Evidence
  BY DEF IInv, EvidenceIsKept
<1> DEFINE a == ack.attempt
<1>1. a \in Attempts /\ ack' = Nothing
  BY <1>0 DEF TypeOK, AckThrows
<1>2. CASE ack.by = "committer"
  <2>1. lane' = lane /\ Answer(a, "uncertain")
    BY <1>2 DEF AckThrows
  <2>2. TypeOK'
    BY <1>0, <1>1, <2>1 DEF TypeOK, Answer
  <2>3. Ownership'
    BY <1>0, <1>1, <1>2, <2>1 DEF TypeOK, Ownership, LivePhases, Answer
  <2>4. Location'
    BY <1>0, <1>1, <1>2, <2>1 DEF TypeOK, Location, Answer
  <2>5. Evidence'
    BY <1>0, <1>1, <1>2, <2>1
    DEF TypeOK, Evidence, Ownership, Consumable, Unexpected, Preserved, Answer
  <2> QED BY <2>2, <2>3, <2>4, <2>5 DEF IInv, EvidenceIsKept
<1>3. CASE ack.by # "committer"
  <2>1. lane' = Idle /\ UNCHANGED <<docVars, live>>
    BY <1>3 DEF AckThrows
  <2>2. TypeOK'
    BY <1>0, <1>1, <2>1 DEF TypeOK, Idle
  <2>3. Ownership'
    BY <1>0, <1>1, <1>3, <2>1 DEF TypeOK, Ownership, LivePhases, Idle
  <2>4. Location'
    BY <1>0, <1>1, <2>1 DEF TypeOK, Location
  <2>5. Evidence'
    BY <1>0, <1>1, <1>3, <2>1
    DEF TypeOK, Evidence, Ownership, Consumable, Unexpected, Preserved, Idle
  <2> QED BY <2>2, <2>3, <2>4, <2>5 DEF IInv, EvidenceIsKept
<1> QED BY <1>2, <1>3

\* A receipt is written only for an attempt that may be consumed.
LEMMA AckReceiptKeeps ==
  ASSUME IInv, AckReceipt
  PROVE  IInv'
<1> USE DEF fileVars, journalVars, docVars
<1>0. TypeOK /\ Ownership /\ Location /\ Evidence
  BY DEF IInv, EvidenceIsKept
<1> DEFINE a == ack.attempt
<1>a. /\ ack \in Acknowledgements /\ a \in Attempts /\ ack # Nothing
      /\ ack.step = "receipt"
      /\ UNCHANGED <<fileVars, raw, ready, discarded, externals, crashes>>
  BY <1>0 DEF AckReceipt, TypeOK
<1>1. CASE /\ NoFault
           /\ ack' = [ack EXCEPT !.step = "unlink"]
           /\ UNCHANGED <<docVars, live, lane>>
           /\ \/ journal[a] = "none" /\ UNCHANGED journalVars
              \/ \E r \in Terminal :
                   /\ journal[a] # "none"
                   /\ journal' = [journal EXCEPT ![a] = r]
                   /\ durable' = [durable EXCEPT ![a] = r]
  <2>1. ack' = [attempt |-> ack.attempt, by |-> ack.by,
                requested |-> ack.requested, step |-> "unlink"]
    BY <1>1, <1>a
  <2>6. journal' \in [Attempts -> JournalStates] /\ durable' \in [Attempts -> JournalStates]
    BY <1>0, <1>1, <1>a DEF TypeOK
  <2>7. ack' \in Acknowledgements
    BY <1>a, <2>1
  <2>2. TypeOK'
    BY <1>0, <1>1, <1>a, <2>6, <2>7 DEF TypeOK, NoFault
  <2>3. Ownership'
    BY <1>0, <1>1, <1>a, <2>1 DEF TypeOK, Ownership, LivePhases
  <2>4. Location'
    BY <1>0, <1>1, <1>a DEF TypeOK, Location
  <2>5. Evidence'
    BY <1>0, <1>1, <1>a, <2>1
    DEF TypeOK, Evidence, Ownership, Consumable, Unexpected, Preserved
  <2> QED BY <2>2, <2>3, <2>4, <2>5 DEF IInv, EvidenceIsKept
<1>2. ASSUME NEW r \in Terminal, AckThrows, faults' \in Nat, UNCHANGED durable,
             \/ UNCHANGED journal
             \/ journal[a] # "none" /\ journal' = [journal EXCEPT ![a] = r]
      PROVE  IInv'
  BY <1>2, <1>a, AckThrowsKeeps
<1>3. ASSUME NEW r \in Receipts(a), journal[a] # "none",
             \/ Fault("receiptWrite") /\ UNCHANGED journal
             \/ Fault("receiptSync") /\ journal' = [journal EXCEPT ![a] = r],
             AckThrows, UNCHANGED durable
      PROVE  IInv'
  <2>1. r \in Terminal
    BY <1>a, ReceiptTypes
  <2>2. faults' \in Nat
    BY <1>0, <1>3 DEF Fault, TypeOK
  <2> QED BY <1>2, <1>3, <2>1, <2>2
<1>4. CASE NoFault /\ AckThrows /\ UNCHANGED journalVars
  <2>1. faults' \in Nat /\ "committed" \in Terminal
    BY <1>0, <1>4 DEF NoFault, TypeOK
  <2> QED BY <1>2, <1>4, <2>1
<1>5. ASSUME NEW r \in Receipts(a), journal[a] # "none", NoFault,
             journal' = [journal EXCEPT ![a] = r],
             durable' = [durable EXCEPT ![a] = r],
             ack' = [ack EXCEPT !.step = "unlink"],
             UNCHANGED <<docVars, live, lane>>
      PROVE  IInv'
  <2>1. r \in Terminal
    BY <1>a, ReceiptTypes
  <2> QED BY <1>1, <1>5, <2>1
<1> QED BY <1>1, <1>3, <1>4, <1>5 DEF AckReceipt

\* The artifact is removed only after the receipt, and only when it may be.
LEMMA AckUnlinkKeeps ==
  ASSUME IInv, AckUnlink
  PROVE  IInv'
<1> USE DEF fileVars, journalVars, docVars
<1>0. TypeOK /\ Ownership /\ Location /\ Evidence
  BY DEF IInv, EvidenceIsKept
<1>1. CASE NoFault /\ ack' = [ack EXCEPT !.step = "journal"]
           /\ cand' = [cand EXCEPT ![ack.attempt] = Nothing]
           /\ UNCHANGED <<docVars, live, lane>>
  <2>1. ack \in Acknowledgements /\ ack.step = "unlink"
    BY <1>0 DEF AckUnlink, TypeOK
  <2>2. ack' = [attempt |-> ack.attempt, by |-> ack.by, requested |-> ack.requested, step |-> "journal"]
    BY <1>1, <2>1
  <2>3. TypeOK'
    BY <1>0, <1>1, <2>1, <2>2 DEF TypeOK, AckUnlink, NoFault
  <2>4. Ownership'
    BY <1>0, <1>1, <2>1, <2>2 DEF TypeOK, Ownership, LivePhases, AckUnlink, NoFault
  <2>5. Location'
    BY <1>0, <1>1, <2>1, <2>2 DEF TypeOK, Location, Ownership, AckUnlink, NoFault
  <2>6. Evidence'
    BY <1>0, <1>1, <2>1, <2>2
    DEF TypeOK, Evidence, Ownership, Consumable, Unexpected, Preserved, AckUnlink, NoFault
  <2> QED BY <2>3, <2>4, <2>5, <2>6 DEF IInv, EvidenceIsKept
<1>2. CASE Fault("unlink") /\ AckThrows /\ UNCHANGED cand
  <2>1. faults' \in Nat
    BY <1>0, <1>2 DEF Fault, TypeOK
  <2>2. UNCHANGED <<fileVars, journalVars, raw, ready, discarded, externals, crashes>>
        /\ ack # Nothing
    BY <1>2 DEF AckUnlink
  <2>3. "committed" \in Terminal
    OBVIOUS
  <2> QED BY <1>2, <2>1, <2>2, <2>3, AckThrowsKeeps
<1> QED BY <1>1, <1>2 DEF AckUnlink

\* The journal goes last; its caller then gets its answer.
LEMMA AckJournalKeeps ==
  ASSUME IInv, AckJournal
  PROVE  IInv'
<1> USE DEF fileVars, journalVars, docVars
<1>0. TypeOK /\ Ownership /\ Location /\ Evidence
  BY DEF IInv, EvidenceIsKept
<1> DEFINE a == ack.attempt
<1>a. /\ ack \in Acknowledgements /\ a \in Attempts /\ ack # Nothing
      /\ ack.step = "journal"
      /\ UNCHANGED <<fileVars, raw, ready, discarded, externals, crashes>>
      /\ faults' \in Nat
  BY <1>0 DEF AckJournal, TypeOK, Fault, NoFault
<1>1. CASE Fault("journalUnlink") /\ AckThrows /\ UNCHANGED journalVars
  <2>1. "committed" \in Terminal
    OBVIOUS
  <2> QED BY <1>1, <1>a, <2>1, AckThrowsKeeps
<1>2. CASE /\ journal' = [journal EXCEPT ![a] = "none"]
           /\ durable' \in {durable, [durable EXCEPT ![a] = "none"]}
           /\ AckReturns
  <2>a. journal' \in [Attempts -> JournalStates] /\ durable' \in [Attempts -> JournalStates]
    BY <1>0, <1>a, <1>2 DEF TypeOK
  <2>b. journal'[a] = "none" /\ durable'[a] # "prepared"
        /\ durable'[a] \in {durable[a], "none"}
        /\ \A e \in Attempts \ {a} : journal'[e] = journal[e] /\ durable'[e] = durable[e]
        /\ Consumable(a)
    BY <1>0, <1>a, <1>2 DEF TypeOK, Evidence
  <2>1. CASE ack.by = "committer"
    <3>1. PICK x \in {"committed", "notStarted"} : Answer(a, x)
      BY <1>2, <2>1 DEF AckReturns
    <3>2. lane' = lane /\ ack' = Nothing
      BY <1>2, <2>1 DEF AckReturns
    <3>3. payload[a] \in Contents
      BY <1>0, <1>a, <2>1 DEF Ownership, LivePhases
    <3>4. TypeOK'
      BY <1>0, <1>a, <2>a, <3>1, <3>2, <3>3 DEF TypeOK, Answer
    <3>5. Ownership'
      BY <1>0, <1>a, <2>1, <2>b, <3>1, <3>2 DEF TypeOK, Ownership, LivePhases, Answer
    <3>6. Location'
      BY <1>0, <1>a, <3>1 DEF TypeOK, Location, Answer
    <3>7. Evidence'
      BY <1>0, <1>a, <2>1, <2>b, <3>1, <3>2
      DEF TypeOK, Evidence, Ownership, LivePhases, Consumable, Unexpected, Preserved, Answer
    <3> QED BY <3>4, <3>5, <3>6, <3>7 DEF IInv, EvidenceIsKept
  <2>2. CASE ack.by = "reconcile"
    <3>1. Answer(a, ack.requested) /\ lane' = Idle /\ ack' = Nothing
      BY <1>2, <2>2 DEF AckReturns
    <3>2. ack.requested \in {"committed", "notCommitted"} /\ payload[a] \in Contents
      BY <1>0, <1>a, <2>2 DEF Ownership
    <3>4. TypeOK'
      BY <1>0, <1>a, <2>a, <3>1, <3>2 DEF TypeOK, Answer, Idle
    <3>5. Ownership'
      BY <1>0, <1>a, <2>2, <2>b, <3>1 DEF TypeOK, Ownership, LivePhases, Answer, Idle
    <3>6. Location'
      BY <1>0, <1>a, <3>1 DEF TypeOK, Location, Answer
    <3>7. Evidence'
      BY <1>0, <1>a, <2>2, <2>b, <3>1, <3>2
      DEF TypeOK, Evidence, Ownership, LivePhases, Consumable, Unexpected, Preserved, Answer, Idle
    <3> QED BY <3>4, <3>5, <3>6, <3>7 DEF IInv, EvidenceIsKept
  <2>3. CASE ack.by = "persistRaw"
    <3>1. /\ answer' = [answer EXCEPT ![a] = "preserved"]
          /\ lane' = Idle /\ ack' = Nothing
          /\ UNCHANGED <<baseline, current, phase, payload, expected, live>>
      BY <1>2, <2>3 DEF AckReturns
    <3>4. TypeOK'
      BY <1>0, <1>a, <2>a, <3>1 DEF TypeOK, Idle
    <3>5. Ownership'
      BY <1>0, <1>a, <2>3, <2>b, <3>1 DEF TypeOK, Ownership, LivePhases, Idle
    <3>6. Location'
      BY <1>0, <1>a, <3>1 DEF TypeOK, Location
    <3>7. Evidence'
      BY <1>0, <1>a, <2>3, <2>b, <3>1
      DEF TypeOK, Evidence, Ownership, LivePhases, Consumable, Unexpected, Preserved, Idle
    <3> QED BY <3>4, <3>5, <3>6, <3>7 DEF IInv, EvidenceIsKept
  <2>4. CASE ack.by = "import"
    <3>0. lane \in LaneStates /\ lane.op = "import"
      BY <1>0, <1>a, <2>4 DEF TypeOK, Ownership
    <3>1. /\ lane' = [lane EXCEPT !.todo = @ \ {a}, !.step = "next", !.attempt = Nothing]
          /\ ack' = Nothing /\ UNCHANGED <<docVars, live>>
      BY <1>2, <2>4 DEF AckReturns
    <3>2. lane' = [op |-> "import", attempt |-> Nothing, step |-> "next",
                   todo |-> lane.todo \ {a}, completed |-> lane.completed]
      BY <3>0, <3>1
    <3>3. lane' \in LaneStates
      BY <3>0, <3>2
    <3>4. TypeOK'
      BY <1>0, <1>a, <2>a, <3>1, <3>3 DEF TypeOK
    <3>5. Ownership'
      BY <1>0, <1>a, <2>b, <3>0, <3>1, <3>2 DEF TypeOK, Ownership, LivePhases
    <3>6. Location'
      BY <1>0, <1>a, <3>1 DEF TypeOK, Location
    <3>7. Evidence'
      BY <1>0, <1>a, <2>4, <2>b, <3>0, <3>1, <3>2
      DEF TypeOK, Evidence, Ownership, LivePhases, Consumable, Unexpected, Preserved
    <3> QED BY <3>4, <3>5, <3>6, <3>7 DEF IInv, EvidenceIsKept
  <2> QED BY <1>a, <2>1, <2>2, <2>3, <2>4
<1> QED BY <1>1, <1>2 DEF AckJournal

------------------------------------------------------------------------------
(* The recovery lane.                                                       *)

\* A scan finds the swap of every prepared journal whose bytes are at risk.
LEMMA ImportScanKeeps ==
  ASSUME IInv, ImportScan
  PROVE  IInv'
<1> USE DEF ImportScan, Pending, JournalsReadable, SwapCompleted, Idle, OrphanRaw,
            fileVars, journalVars, docVars, boundVars
<1>0. TypeOK /\ Ownership /\ Location /\ Evidence
  BY DEF IInv, EvidenceIsKept
<1>1. TypeOK'
  BY <1>0 DEF TypeOK, Ownership, LivePhases
<1>2. Ownership'
  BY <1>0 DEF Ownership, TypeOK, LivePhases
<1>3. Location'
  BY <1>0 DEF Location, Ownership, TypeOK, LivePhases
<1>4. Evidence'
  BY <1>0 DEF Evidence, Consumable, Unexpected, Preserved, Location, Ownership,
              TypeOK, LivePhases
<1> QED BY <1>1, <1>2, <1>3, <1>4 DEF IInv, EvidenceIsKept

\* The import acknowledges at once only what needs no raw entry.
LEMMA ImportNextKeeps ==
  ASSUME IInv, NEW c \in Attempts, ImportNext(c)
  PROVE  IInv'
<1> USE DEF fileVars, journalVars, docVars, boundVars
<1>0. TypeOK /\ Ownership /\ Location /\ Evidence
  BY DEF IInv, EvidenceIsKept
<1>a. /\ lane \in LaneStates /\ lane.op = "import" /\ lane.step = "next"
      /\ c \in lane.todo
  BY <1>0 DEF TypeOK, ImportNext
<1>b. UNCHANGED <<fileVars, journalVars, raw, docVars, live, ready, discarded,
                  boundVars>>
  BY DEF ImportNext
<1>1. CASE MustPreserve(c)
  <2>1. lane' = [lane EXCEPT !.attempt = c, !.step = "payload"] /\ ack' = ack
    BY <1>1 DEF ImportNext
  <2>2. lane' = [op |-> "import", attempt |-> c, step |-> "payload",
                 todo |-> lane.todo, completed |-> lane.completed]
    BY <2>1, <1>a
  <2>3. TypeOK'
    BY <1>0, <1>b, <1>a, <2>1, <2>2 DEF TypeOK
  <2>4. Ownership'
    BY <1>0, <1>b, <1>a, <2>1, <2>2 DEF TypeOK, Ownership, LivePhases
  <2>5. Location'
    BY <1>0, <1>b DEF TypeOK, Location
  <2>6. /\ c \in lane.todo \cap lane.completed
        /\ raw[c] # Nothing \/ cand[c] # Nothing
    BY <1>0, <1>1, <1>a DEF MustPreserve, TypeOK, Ownership, Evidence
  <2>7. Evidence'
    BY <1>0, <1>b, <1>a, <2>1, <2>2, <2>6
    DEF TypeOK, Evidence, Consumable, Unexpected, Preserved
  <2> QED BY <2>3, <2>4, <2>5, <2>7 DEF IInv, EvidenceIsKept
<1>2. CASE ~MustPreserve(c)
  <2>1. /\ lane' = [lane EXCEPT !.attempt = c, !.step = "acknowledging"]
        /\ ack = Nothing
        /\ ack' = [attempt |-> c, by |-> "import", requested |-> Nothing,
                   step |-> "receipt"]
    BY <1>2 DEF ImportNext, Acknowledge
  <2>2. lane' = [op |-> "import", attempt |-> c, step |-> "acknowledging",
                 todo |-> lane.todo, completed |-> lane.completed]
    BY <2>1, <1>a
  <2>3. TypeOK'
    BY <1>0, <1>b, <1>a, <2>1, <2>2 DEF TypeOK
  <2>4. Ownership'
    BY <1>0, <1>b, <1>a, <2>1, <2>2 DEF TypeOK, Ownership, LivePhases
  <2>5. Location'
    BY <1>0, <1>b DEF TypeOK, Location
  <2>6. Consumable(c)
    BY <1>0, <1>2, <1>a, <2>1
    DEF MustPreserve, TypeOK, Ownership, Evidence, Location, Consumable,
        Unexpected, Preserved
  <2>7. Evidence'
    BY <1>0, <1>b, <1>a, <2>1, <2>2, <2>6
    DEF TypeOK, Evidence, Consumable, Unexpected, Preserved
  <2> QED BY <2>3, <2>4, <2>5, <2>7 DEF IInv, EvidenceIsKept
<1> QED BY <1>1, <1>2

\* A finished import only settles answers.
LEMMA ImportDoneKeeps ==
  ASSUME IInv, ImportDone
  PROVE  IInv'
<1> USE DEF ImportDone, Idle,
            fileVars, journalVars, docVars, boundVars
<1>0. TypeOK /\ Ownership /\ Location /\ Evidence
  BY DEF IInv, EvidenceIsKept
<1>1. TypeOK'
  BY <1>0 DEF TypeOK, Ownership, LivePhases
<1>2. Ownership'
  BY <1>0 DEF Ownership, TypeOK, LivePhases
<1>3. Location'
  BY <1>0 DEF Location, Ownership, TypeOK, LivePhases
<1>4. Evidence'
  BY <1>0 DEF Evidence, Consumable, Unexpected, Preserved, Location, Ownership,
              TypeOK, LivePhases
<1> QED BY <1>1, <1>2, <1>3, <1>4 DEF IInv, EvidenceIsKept

\* The bytes of a contested commit are still at its candidate path.
LEMMA PersistRawKeeps ==
  ASSUME IInv, NEW c \in Attempts, PersistRaw(c)
  PROVE  IInv'
<1> USE DEF PersistRaw, fileVars, journalVars, docVars, boundVars
<1>0. TypeOK /\ Ownership /\ Location /\ Evidence
  BY DEF IInv, EvidenceIsKept
<1>1. lane' = [op |-> "persistRaw", attempt |-> c, step |-> "payload",
               todo |-> {}, completed |-> {}]
  BY DEF Idle
<1>2. TypeOK'
  BY <1>0, <1>1 DEF TypeOK
<1>3. Ownership'
  BY <1>0, <1>1 DEF TypeOK, Ownership, LivePhases, Evidence, Unexpected, Idle
<1>4. Location'
  BY <1>0 DEF TypeOK, Location
<1>5. Evidence'
  BY <1>0, <1>1
  DEF TypeOK, Evidence, Ownership, Consumable, Unexpected, Preserved, Idle
<1> QED BY <1>2, <1>3, <1>4, <1>5 DEF IInv, EvidenceIsKept

\* The raw entry holds the displaced bytes, also when a write fails.
LEMMA WriteRawKeeps ==
  ASSUME IInv, WriteRaw
  PROVE  IInv'
<1> USE DEF fileVars, journalVars, docVars
<1>0. TypeOK /\ Ownership /\ Location /\ Evidence
  BY DEF IInv, EvidenceIsKept
<1> DEFINE a == lane.attempt
           entry == IF raw[a] # Nothing THEN raw[a]
                    ELSE [state |-> "payload", data |-> cand[a].data]
<1>1. /\ lane \in LaneStates /\ a \in Attempts
      /\ lane.step \in {"payload", "intend"}
      /\ UNCHANGED <<fileVars, journalVars, docVars, live, ack, ready,
                     discarded, externals, crashes>>
      /\ faults' \in Nat
  BY <1>0 DEF WriteRaw, TypeOK, Ownership, Fault, NoFault
<1>2. /\ entry \in RawEntries
      /\ displaced[a] # Nothing => entry.data = displaced[a].data
  BY <1>0, <1>1 DEF TypeOK, Evidence, Location
<1>3. PICK e \in RawEntries :
        /\ e.data = entry.data
        /\ raw' = raw \/ raw' = [raw EXCEPT ![a] = e]
        /\ \/ lane' = Idle
           \/ /\ lane' = [lane EXCEPT !.step = RawSteps[lane.step]]
              /\ raw' = [raw EXCEPT ![a] = e]
  <2> DEFINE intended == [entry EXCEPT !.state = "intended"]
             e == IF lane.step = "payload" THEN entry ELSE intended
  <2>1. intended \in RawEntries /\ intended.data = entry.data
    BY <1>2
  <2>2. e \in RawEntries /\ e.data = entry.data
    BY <1>2, <2>1
  <2>3. /\ raw' = raw \/ raw' = [raw EXCEPT ![a] = e]
        /\ \/ lane' = Idle
           \/ /\ lane' = [lane EXCEPT !.step = RawSteps[lane.step]]
              /\ raw' = [raw EXCEPT ![a] = e]
    BY DEF WriteRaw
  <2> QED BY <2>2, <2>3
<1>4. raw' \in [Attempts -> RawEntries \cup {Nothing}]
  BY <1>0, <1>1, <1>3 DEF TypeOK
<1>5. \A c \in Attempts :
        /\ Consumable(c) => Consumable(c)'
        /\ raw'[c] # Nothing /\ displaced[c] # Nothing => raw'[c].data = displaced[c].data
        /\ raw[c] # Nothing => raw'[c] # Nothing
        /\ phase[c] # "over" => raw'[c] = raw[c]
  BY <1>0, <1>1, <1>2, <1>3
  DEF TypeOK, Ownership, Evidence, Consumable, Unexpected, Preserved
<1>6. CASE lane' = Idle
  <2>1. TypeOK'
    BY <1>0, <1>1, <1>4, <1>6 DEF TypeOK, Idle
  <2>2. Ownership'
    BY <1>0, <1>1, <1>5, <1>6 DEF TypeOK, Ownership, LivePhases, Idle
  <2>3. Location'
    BY <1>0, <1>1 DEF TypeOK, Location
  <2>4. Evidence'
    BY <1>0, <1>1, <1>5, <1>6 DEF TypeOK, Evidence, Unexpected, Idle, Ownership, Consumable
  <2> QED BY <2>1, <2>2, <2>3, <2>4 DEF IInv, EvidenceIsKept
<1>7. CASE /\ lane' = [lane EXCEPT !.step = RawSteps[lane.step]]
           /\ raw'[a] # Nothing
  <2>0. PICK next \in {"intend", "acknowledge"} :
          lane' = [op |-> lane.op, attempt |-> a, step |-> next,
                   todo |-> lane.todo, completed |-> lane.completed]
    BY <1>1, <1>7 DEF RawSteps
  <2>1. TypeOK'
    BY <1>0, <1>1, <1>4, <2>0 DEF TypeOK
  <2>2. Ownership'
    BY <1>0, <1>1, <1>5, <2>0 DEF TypeOK, Ownership, LivePhases
  <2>3. Location'
    BY <1>0, <1>1 DEF TypeOK, Location
  <2>4. Evidence'
    BY <1>0, <1>1, <1>5, <1>7, <2>0 DEF TypeOK, Evidence, Unexpected, Ownership, Consumable
  <2> QED BY <2>1, <2>2, <2>3, <2>4 DEF IInv, EvidenceIsKept
<1>8. raw'[a] # Nothing \/ lane' = Idle
  BY <1>0, <1>1, <1>3 DEF TypeOK
<1> QED BY <1>3, <1>6, <1>7, <1>8

\* The acknowledgement of the journal starts when the raw entry is complete.
LEMMA AcknowledgeRawKeeps ==
  ASSUME IInv, AcknowledgeRaw
  PROVE  IInv'
<1> USE DEF fileVars, journalVars, docVars
<1>0. TypeOK /\ Ownership /\ Location /\ Evidence
  BY DEF IInv, EvidenceIsKept
<1> DEFINE a == lane.attempt
<1>1. /\ lane \in LaneStates /\ a \in Attempts /\ lane.step = "acknowledge"
      /\ UNCHANGED <<fileVars, journalVars, docVars, live, ready, discarded,
                     externals, crashes>>
      /\ faults' \in Nat
      /\ raw[a] \in RawEntries
  BY <1>0 DEF AcknowledgeRaw, TypeOK, Ownership, Evidence, Fault, NoFault
<1>2. PICK e \in RawEntries :
        /\ e.data = raw[a].data
        /\ raw' = raw \/ raw' = [raw EXCEPT ![a] = e]
  <2> DEFINE e == [raw[a] EXCEPT !.state = "acknowledged"]
  <2>1. e \in RawEntries /\ e.data = raw[a].data
    BY <1>1
  <2>2. raw' = raw \/ raw' = [raw EXCEPT ![a] = e]
    BY DEF AcknowledgeRaw
  <2> QED BY <2>1, <2>2
<1>3. raw' \in [Attempts -> RawEntries \cup {Nothing}]
  BY <1>0, <1>1, <1>2 DEF TypeOK
<1>4. \A c \in Attempts :
        /\ Consumable(c) => Consumable(c)'
        /\ raw'[c] # Nothing /\ displaced[c] # Nothing => raw'[c].data = displaced[c].data
        /\ (raw[c] # Nothing) <=> (raw'[c] # Nothing)
  BY <1>0, <1>1, <1>2 DEF TypeOK, Evidence, Consumable, Unexpected, Preserved
<1>5. CASE lane' = Idle /\ ack' = ack
  <2>1. TypeOK'
    BY <1>0, <1>1, <1>3, <1>5 DEF TypeOK, Idle
  <2>2. Ownership'
    BY <1>0, <1>1, <1>4, <1>5 DEF TypeOK, Ownership, LivePhases, Idle
  <2>3. Location'
    BY <1>0, <1>1 DEF TypeOK, Location
  <2>4. Evidence'
    BY <1>0, <1>1, <1>4, <1>5 DEF TypeOK, Evidence, Unexpected, Idle, Ownership, Consumable
  <2> QED BY <2>1, <2>2, <2>3, <2>4 DEF IInv, EvidenceIsKept
<1>6. CASE /\ lane' = [lane EXCEPT !.step = "acknowledging"]
           /\ Acknowledge(a, lane.op, Nothing)
  <2>0. /\ lane' = [op |-> lane.op, attempt |-> a, step |-> "acknowledging",
                    todo |-> lane.todo, completed |-> lane.completed]
        /\ ack' = [attempt |-> a, by |-> lane.op, requested |-> Nothing,
                   step |-> "receipt"]
        /\ ack = Nothing
    BY <1>1, <1>6 DEF Acknowledge
  <2>a. lane.op \in {"import", "persistRaw"} /\ phase[a] = "over"
    BY <1>0, <1>1 DEF Ownership
  <2>b. Consumable(a)
    BY <1>0, <1>1 DEF Evidence, Consumable, Unexpected, Preserved
  <2>1. TypeOK'
    BY <1>0, <1>1, <1>3, <2>0, <2>a DEF TypeOK
  <2>2. Ownership'
    BY <1>0, <1>1, <1>4, <2>0, <2>a DEF TypeOK, Ownership, LivePhases
  <2>3. Location'
    BY <1>0, <1>1 DEF TypeOK, Location
  <2>4. Evidence'
    BY <1>0, <1>1, <1>4, <2>0, <2>b DEF TypeOK, Evidence, Unexpected, Ownership, Consumable
  <2> QED BY <2>1, <2>2, <2>3, <2>4 DEF IInv, EvidenceIsKept
<1> QED BY <1>5, <1>6 DEF AcknowledgeRaw

\* The user gives up bytes of an attempt whose journal is gone.
LEMMA DiscardRawKeeps ==
  ASSUME IInv, NEW c \in Attempts, DiscardRaw(c)
  PROVE  IInv'
<1> USE DEF DiscardRaw, Idle,
            fileVars, journalVars, docVars, boundVars
<1>0. TypeOK /\ Ownership /\ Location /\ Evidence
  BY DEF IInv, EvidenceIsKept
<1>1. TypeOK'
  BY <1>0 DEF TypeOK, Ownership, LivePhases
<1>2. Ownership'
  BY <1>0 DEF Ownership, TypeOK, LivePhases
<1>3. Location'
  BY <1>0 DEF Location, Ownership, TypeOK, LivePhases
<1>4. Evidence'
  BY <1>0 DEF Evidence, Consumable, Unexpected, Preserved, Location, Ownership,
              TypeOK, LivePhases
<1> QED BY <1>1, <1>2, <1>3, <1>4 DEF IInv, EvidenceIsKept

\* Reconciliation consumes a journal only when nothing unexpected is at stake.
LEMMA ReconcileKeeps ==
  ASSUME IInv, NEW c \in Attempts, Reconcile(c)
  PROVE  IInv'
<1> USE DEF fileVars, journalVars, docVars, boundVars
<1>0. TypeOK /\ Ownership /\ Location /\ Evidence
  BY DEF IInv, EvidenceIsKept
<1>a. /\ lane = Idle /\ ack = Nothing /\ target \in File
      /\ journal[c] # "none" /\ c \notin live
      /\ journal[c] = "prepared" => cand[c] \in File
      /\ UNCHANGED <<target, cand, displaced, journalVars, raw, ready, discarded,
                     boundVars>>
      /\ unflushed' \in {unflushed, Nothing}
  BY <1>0 DEF Reconcile, Pending, JournalsReadable, TypeOK
<1>b. phase[c] = "over" /\ payload[c] \in Contents
  BY <1>0, <1>a DEF TypeOK, Ownership, LivePhases
<1>c. Location'
  BY <1>0, <1>a, <1>b DEF TypeOK, Location, Reconcile, Answer
<1>1. ASSUME NEW r \in {"committed", "notCommitted"}, Consumable(c),
             Acknowledge(c, "reconcile", r),
             lane' = [Idle EXCEPT !.op = "reconcile"],
             UNCHANGED <<docVars, live>>
      PROVE  IInv'
  <2>1. /\ ack' = [attempt |-> c, by |-> "reconcile", requested |-> r,
                   step |-> "receipt"]
        /\ lane' = [op |-> "reconcile", attempt |-> Nothing, step |-> "none",
                    todo |-> {}, completed |-> {}]
    BY <1>1 DEF Acknowledge, Idle
  <2>2. TypeOK'
    BY <1>0, <1>1, <1>a, <2>1 DEF TypeOK
  <2>3. Ownership'
    BY <1>0, <1>1, <1>a, <1>b, <2>1 DEF TypeOK, Ownership, LivePhases
  <2>4. Evidence'
    BY <1>0, <1>1, <1>a, <2>1 DEF TypeOK, Evidence, Consumable, Unexpected, Preserved
  <2> QED BY <1>c, <2>2, <2>3, <2>4 DEF IInv, EvidenceIsKept
<1>2. ASSUME Answer(c, "contested"), UNCHANGED <<ack, lane>>, Unexpected(c)
      PROVE  IInv'
  <2>1. TypeOK'
    BY <1>0, <1>2, <1>a, <1>b DEF TypeOK, Answer
  <2>2. Ownership'
    BY <1>0, <1>2, <1>a, <1>b DEF TypeOK, Ownership, LivePhases, Answer
  <2>3. Evidence'
    BY <1>0, <1>2, <1>a, <1>b
    DEF TypeOK, Evidence, Consumable, Unexpected, Preserved, Answer
  <2> QED BY <1>c, <2>1, <2>2, <2>3 DEF IInv, EvidenceIsKept
<1>3. journal[c] # "prepared" => Consumable(c)
  BY <1>0 DEF Evidence
<1>4. journal[c] = "prepared" /\ cand[c].ino = c => Consumable(c)
  BY <1>0, <1>a DEF Location, Consumable, Unexpected
<1>5. journal[c] = "prepared" /\ cand[c].ino # c =>
        cand[c] = displaced[c] /\ displaced[c] # Nothing
  BY <1>0, <1>a DEF Location, TypeOK
<1>6. ASSUME journal[c] = "prepared", cand[c].ino # c
      PROVE  IF cand[c].data = expected[c].data THEN Consumable(c) ELSE Unexpected(c)
  BY <1>0, <1>5, <1>6 DEF Evidence, Consumable, Unexpected
<1> QED
  BY <1>1, <1>2, <1>3, <1>4, <1>6 DEF Reconcile

------------------------------------------------------------------------------
(* The end of the process.                                                  *)

\* What a new process knows about the attempts of the last one.
LEMMA ProcessTypes ==
  ASSUME TypeOK, ProcessState
  PROVE  /\ phase' \in [Attempts -> {"unused", "candidate", "journaled", "swapped",
                                      "flushed", "verified", "swapFailed", "over"}]
         /\ answer' \in [Attempts -> {"none", "notStarted", "notCommitted", "committed",
                                       "contested", "preserved", "uncertain", "lost"}]
         /\ \A c \in Attempts :
              /\ phase'[c] = IF phase[c] = "unused" THEN "unused" ELSE "over"
              /\ answer'[c] # "contested"
         /\ crashes' \in Nat
<1>1. ASSUME NEW c \in Attempts
      PROVE  (CASE answer[c] \in {"contested", "preserved"} -> "committed"
                [] answer[c] = "uncertain" \/ c = current -> "lost"
                [] OTHER -> answer[c])
               \in {"none", "notStarted", "notCommitted", "committed", "uncertain", "lost"}
  BY DEF TypeOK
<1>2. answer' \in [Attempts -> {"none", "notStarted", "notCommitted", "committed",
                                "uncertain", "lost"}]
  BY <1>1, Zenon DEF ProcessState
<1>3. crashes' \in Nat
  BY DEF ProcessState, TypeOK
<1>4. phase' = [c \in Attempts |-> IF phase[c] = "unused" THEN "unused" ELSE "over"]
  BY DEF ProcessState
<1> QED BY <1>2, <1>3, <1>4

\* The end of the process forgets memory only.
LEMMA ProcessEndsKeeps ==
  ASSUME IInv, ProcessEnds
  PROVE  IInv'
<1> USE DEF fileVars, journalVars
<1>0. TypeOK /\ Ownership /\ Location /\ Evidence /\ ProcessState
  BY DEF IInv, EvidenceIsKept, ProcessEnds
<1>1. /\ UNCHANGED <<fileVars, journalVars, payload, expected, raw, discarded,
                     externals, faults>>
      /\ live' = {} /\ ack' = Nothing /\ lane' = Idle /\ ready' = FALSE
      /\ baseline' = Nothing /\ current' = Nothing
  BY DEF ProcessEnds, ProcessState
<1>2. TypeOK'
  BY <1>0, <1>1, ProcessTypes DEF TypeOK, Idle
<1>3. Ownership'
  BY <1>0, <1>1, ProcessTypes DEF TypeOK, Ownership, LivePhases, Idle
<1>4. Location'
  BY <1>0, <1>1, ProcessTypes DEF TypeOK, Location
<1>5. Evidence'
  BY <1>0, <1>1, ProcessTypes
  DEF TypeOK, Evidence, Consumable, Unexpected, Preserved, Idle
<1> QED BY <1>2, <1>3, <1>4, <1>5 DEF IInv, EvidenceIsKept

\* A power loss reverts unsynchronized entries, and perhaps the last swap.
LEMMA PowerLossKeeps ==
  ASSUME IInv, PowerLoss
  PROVE  IInv'
<1> USE DEF fileVars
<1>0. TypeOK /\ Ownership /\ Location /\ Evidence /\ ProcessState
  BY DEF IInv, EvidenceIsKept, PowerLoss
<1>1. /\ UNCHANGED <<payload, expected, raw, discarded, externals, faults>>
      /\ live' = {} /\ ack' = Nothing /\ lane' = Idle /\ ready' = FALSE
      /\ baseline' = Nothing /\ current' = Nothing /\ unflushed' = Nothing
  BY DEF PowerLoss, ProcessState
<1>2. /\ journal' \in [Attempts -> JournalStates] /\ durable' = journal'
      /\ \A c \in Attempts : journal'[c] \in {journal[c], durable[c]}
  <2>1. PICK kept \in SUBSET Attempts :
          journal' = [c \in Attempts |-> IF c \in kept THEN journal[c] ELSE durable[c]]
    BY DEF PowerLoss
  <2> QED BY <1>0, <2>1 DEF PowerLoss, TypeOK
<1>4. CASE UNCHANGED <<target, cand, displaced>>
  <2>2. TypeOK'
    BY <1>0, <1>1, <1>2, <1>4, ProcessTypes DEF TypeOK, Idle
  <2>3. Ownership'
    BY <1>0, <1>1, <1>2, <1>4, ProcessTypes DEF TypeOK, Ownership, LivePhases, Idle
  <2>4. Location'
    BY <1>0, <1>1, <1>4, ProcessTypes DEF TypeOK, Location
  <2>5. Evidence'
    BY <1>0, <1>1, <1>2, <1>4, ProcessTypes
    DEF TypeOK, Evidence, Consumable, Unexpected, Preserved, Idle
  <2> QED BY <2>2, <2>3, <2>4, <2>5 DEF IInv, EvidenceIsKept
<1>5. CASE /\ unflushed # Nothing /\ cand[unflushed] # Nothing
           /\ target' = cand[unflushed]
           /\ cand' = [cand EXCEPT ![unflushed] = target]
           /\ displaced' = [displaced EXCEPT ![unflushed] = Nothing]
  <2>1. unflushed \in Attempts /\ cand[unflushed] \in File /\ target \in File
    BY <1>0, <1>5 DEF TypeOK, Location
  <2>2. TypeOK'
    BY <1>0, <1>1, <1>2, <1>5, <2>1, ProcessTypes DEF TypeOK, Idle
  <2>3. Ownership'
    BY <1>0, <1>1, <1>2, <1>5, <2>1, ProcessTypes
    DEF TypeOK, Ownership, Location, LivePhases, Idle
  <2>4. Location'
    BY <1>0, <1>1, <1>5, <2>1, ProcessTypes DEF TypeOK, Location
  <2>5. Evidence'
    BY <1>0, <1>1, <1>2, <1>5, <2>1, ProcessTypes
    DEF TypeOK, Evidence, Consumable, Unexpected, Preserved, Idle
  <2> QED BY <2>2, <2>3, <2>4, <2>5 DEF IInv, EvidenceIsKept
<1> QED BY <1>4, <1>5 DEF PowerLoss

------------------------------------------------------------------------------
(* The theorems.                                                            *)

\* Every step of Next, and a step that changes nothing, keeps the invariant.
LEMMA NextKeeps == IInv /\ [Next]_vars => IInv'
<1> SUFFICES ASSUME IInv, [Next]_vars PROVE IInv'
  OBVIOUS
<1>1. CASE ExternalWrite
  BY <1>1, ExternalWriteKeeps
<1>2. CASE ReadTarget
  BY <1>2, ReadTargetKeeps
<1>3. ASSUME NEW c \in Attempts, PrepareCandidate(c) PROVE IInv'
  BY <1>3, PrepareCandidateKeeps
<1>4. ASSUME NEW c \in Attempts, PrepareCandidateFails(c) PROVE IInv'
  BY <1>4, PrepareCandidateFailsKeeps
<1>5. ASSUME NEW c \in Attempts, WriteJournal(c) PROVE IInv'
  BY <1>5, WriteJournalKeeps
<1>6. ASSUME NEW c \in Attempts, Swap(c) PROVE IInv'
  BY <1>6, SwapKeeps
<1>7. ASSUME NEW c \in Attempts, SwapFails(c) PROVE IInv'
  BY <1>7, SwapFailsKeeps
<1>8. ASSUME NEW c \in Attempts, FlushSwap(c) PROVE IInv'
  BY <1>8, FlushSwapKeeps
<1>9. ASSUME NEW c \in Attempts, ReadDisplaced(c) PROVE IInv'
  BY <1>9, ReadDisplacedKeeps
<1>10. ASSUME NEW c \in Attempts, CommitterAcknowledges(c) PROVE IInv'
  BY <1>10, CommitterAcknowledgesKeeps
<1>11. CASE AckReceipt
  BY <1>11, AckReceiptKeeps
<1>12. CASE AckUnlink
  BY <1>12, AckUnlinkKeeps
<1>13. CASE AckJournal
  BY <1>13, AckJournalKeeps
<1>14. CASE ImportScan
  BY <1>14, ImportScanKeeps
<1>15. ASSUME NEW c \in Attempts, ImportNext(c) PROVE IInv'
  BY <1>15, ImportNextKeeps
<1>16. CASE ImportDone
  BY <1>16, ImportDoneKeeps
<1>17. ASSUME NEW c \in Attempts, PersistRaw(c) PROVE IInv'
  BY <1>17, PersistRawKeeps
<1>18. CASE WriteRaw
  BY <1>18, WriteRawKeeps
<1>19. CASE AcknowledgeRaw
  BY <1>19, AcknowledgeRawKeeps
<1>20. ASSUME NEW c \in Attempts, DiscardRaw(c) PROVE IInv'
  BY <1>20, DiscardRawKeeps
<1>21. ASSUME NEW c \in Attempts, Reconcile(c) PROVE IInv'
  BY <1>21, ReconcileKeeps
<1>22. CASE ProcessEnds
  BY <1>22, ProcessEndsKeeps
<1>23. CASE PowerLoss
  BY <1>23, PowerLossKeeps
<1>24. CASE UNCHANGED vars
  <2>0. TypeOK /\ Ownership /\ Location /\ Evidence
    BY DEF IInv, EvidenceIsKept
  <2>1. TypeOK'
    BY <1>24, <2>0 DEF TypeOK, vars
  <2>2. Ownership'
    BY <1>24, <2>0 DEF Ownership, LivePhases, vars
  <2>3. Location'
    BY <1>24, <2>0 DEF Location, vars
  <2>4. Evidence'
    BY <1>24, <2>0 DEF Evidence, Consumable, Unexpected, Preserved, vars
  <2> QED BY <2>1, <2>2, <2>3, <2>4 DEF IInv, EvidenceIsKept
<1> QED
  BY <1>1, <1>2, <1>3, <1>4, <1>5, <1>6, <1>7, <1>8, <1>9, <1>10, <1>11, <1>12,
     <1>13, <1>14, <1>15, <1>16, <1>17, <1>18, <1>19, <1>20, <1>21, <1>22, <1>23, <1>24
  DEF Next, CommitterStep, AckStep, LaneStep

\* The inductive invariant holds in every reachable state.
THEOREM Inductive == Spec => []IInv
BY InitEstablishes, NextKeeps, PTL DEF Spec

\* The variables of the committer, of the commit journal and of the recovery
\* lane keep their types.
THEOREM TypesHold == Spec => []TypeOK
<1>1. IInv => TypeOK
  BY DEF IInv
<1> QED BY <1>1, Inductive, PTL

\* Ownership of attempts, the place of their files and the evidence about
\* displaced bytes agree, whatever fails and whenever the process ends.
THEOREM EvidenceHolds == Spec => []EvidenceIsKept
<1>1. IInv => EvidenceIsKept
  BY DEF IInv
<1> QED BY <1>1, Inductive, PTL

\* No commit, import, acknowledgement, failure or crash loses the bytes
\* another program wrote between the validation of the preimage and the swap.
THEOREM NoForeignBytesLost == Spec => []ForeignBytesStayReachable
<1>1. IInv => ForeignBytesStayReachable
  BY DEF IInv, TypeOK, EvidenceIsKept, Evidence, Consumable, Unexpected,
         Preserved, ForeignBytesStayReachable, Reachable
<1> QED BY <1>1, Inductive, PTL

-----------------------------------------------------------------------------
(***************************************************************************)
(* FileCommit implements FileReplacement.  The invariant above says where  *)
(* displaced bytes are; the one added here says what the document has been *)
(* told about them.  There is one lemma per action: it keeps the           *)
(* invariant, and one more: it is a step of the promise or none.           *)
(***************************************************************************)

\* Answers of the document that say the payload is in the file.
Kept == {"committed", "contested", "preserved"}

\* The document waits for one attempt at a time and expects, while it waits,
\* the file that attempt is bound to; what it was told is committed was
\* displaced and cannot be taken back by a power loss.
AnswersAgree ==
  \A c \in Attempts :
    /\ current = c => phase[c] # "unused" /\ answer[c] \in {"none", "uncertain"}
    /\ phase[c] # "over" => answer[c] = "none"
    /\ phase[c] \notin {"unused", "over"} =>
         current = c /\ baseline # Nothing /\ expected[c] = baseline
    /\ answer[c] \in Kept =>
         displaced[c] # Nothing /\ (cand[c] # Nothing => unflushed # c)
    /\ phase[c] \in {"flushed", "verified"} => unflushed # c

\* An attempt that displaced a file has a payload and an expectation, and no
\* receipt says it replaced nothing; its own file holds the payload; a
\* displaced file that is still beside the target has a journal and has not
\* been discarded.
ArtifactsAgree ==
  \A c \in Attempts :
    /\ displaced[c] # Nothing =>
         /\ payload[c] \in Contents /\ expected[c] # Nothing
         /\ journal[c] # "notCommitted" /\ durable[c] # "notCommitted"
    /\ cand[c] # Nothing /\ cand[c].ino = c =>
         payload[c] \in Contents /\ cand[c].data = payload[c]
    /\ unflushed = c => target # Nothing /\ target.data = payload[c]
    /\ cand[c] # Nothing /\ cand[c].ino # c =>
         journal[c] # "none" /\ durable[c] # "none" /\ c \notin discarded

\* What the recovery lane and an acknowledgement in progress have found out
\* about their attempt stays true until they are done.
ImportAgrees ==
  \A c \in lane.todo \cap lane.completed : displaced[c] # Nothing

PreservationAgrees ==
  /\ lane.op = "persistRaw" =>
       lane.attempt # Nothing /\ answer[lane.attempt] = "contested"
  /\ LET c == lane.attempt IN
       lane.step = "payload" /\ raw[c] = Nothing =>
         /\ cand[c] # Nothing /\ cand[c].ino # c
         /\ cand[c].data # expected[c].data

AckAgrees ==
  ack # Nothing =>
    LET c == ack.attempt IN
    /\ ack.step = "journal" => cand[c] = Nothing
    /\ ack.requested # Nothing => ack.by = "reconcile"
    /\ ack.by = "persistRaw" => answer[c] = "contested"
    /\ ack.by = "reconcile" =>
         /\ current = c /\ answer[c] = "uncertain"
         /\ (ack.requested = "committed") <=> (displaced[c] # Nothing)

LaneAgrees == ImportAgrees /\ PreservationAgrees /\ AckAgrees

PInv == IInv /\ AnswersAgree /\ ArtifactsAgree /\ LaneAgrees

\* Another program that changes the target makes an unflushed swap final.
LEMMA ExternalWriteKeepsAnswers ==
  ASSUME PInv, ExternalWrite
  PROVE  AnswersAgree' /\ ArtifactsAgree' /\ LaneAgrees'
<1> USE DEF ExternalWrite, fileVars, journalVars, docVars, boundVars
<1>0. /\ TypeOK /\ Ownership /\ Location /\ Evidence
      /\ AnswersAgree /\ ArtifactsAgree /\ LaneAgrees
  BY DEF PInv, IInv, EvidenceIsKept
<1>1. AnswersAgree'
  BY <1>0 DEF AnswersAgree, Kept, LivePhases, Ownership, Location, TypeOK
<1>2. ArtifactsAgree'
  BY <1>0 DEF ArtifactsAgree, Ownership, Location, Evidence, TypeOK, LivePhases
<1>3. LaneAgrees'
  BY <1>0 DEF LaneAgrees, ImportAgrees, PreservationAgrees, AckAgrees, AnswersAgree,
      ArtifactsAgree, Ownership, Location, Evidence, TypeOK, LivePhases
<1> QED BY <1>1, <1>2, <1>3

\* The baseline moves only while no attempt waits for its answer.
LEMMA ReadTargetKeepsAnswers ==
  ASSUME PInv, ReadTarget
  PROVE  AnswersAgree' /\ ArtifactsAgree' /\ LaneAgrees'
<1> USE DEF ReadTarget, fileVars, journalVars, docVars, boundVars
<1>0. /\ TypeOK /\ Ownership /\ Location /\ Evidence
      /\ AnswersAgree /\ ArtifactsAgree /\ LaneAgrees
  BY DEF PInv, IInv, EvidenceIsKept
<1>1. AnswersAgree'
  BY <1>0 DEF AnswersAgree, Kept, LivePhases, Ownership, Location, TypeOK
<1>2. ArtifactsAgree'
  BY <1>0 DEF ArtifactsAgree, Ownership, Location, Evidence, TypeOK, LivePhases
<1>3. LaneAgrees'
  BY <1>0 DEF LaneAgrees, ImportAgrees, PreservationAgrees, AckAgrees, AnswersAgree,
      ArtifactsAgree, Ownership, Location, Evidence, TypeOK, LivePhases
<1> QED BY <1>1, <1>2, <1>3

\* A new attempt is bound to the baseline of its document.
LEMMA PrepareCandidateKeepsAnswers ==
  ASSUME PInv, NEW c \in Attempts, PrepareCandidate(c)
  PROVE  AnswersAgree' /\ ArtifactsAgree' /\ LaneAgrees'
<1> USE DEF PrepareCandidate, fileVars, journalVars, docVars, boundVars, MayCommit
<1>0. /\ TypeOK /\ Ownership /\ Location /\ Evidence
      /\ AnswersAgree /\ ArtifactsAgree /\ LaneAgrees
  BY DEF PInv, IInv, EvidenceIsKept
<1>1. AnswersAgree'
  BY <1>0 DEF AnswersAgree, Kept, LivePhases, Ownership, Location, TypeOK
<1>2. ArtifactsAgree'
  BY <1>0 DEF ArtifactsAgree, Ownership, Location, Evidence, TypeOK, LivePhases
<1>3. LaneAgrees'
  BY <1>0 DEF LaneAgrees, ImportAgrees, PreservationAgrees, AckAgrees, AnswersAgree,
      ArtifactsAgree, Ownership, Location, Evidence, TypeOK, LivePhases
<1> QED BY <1>1, <1>2, <1>3

\* A refused attempt is answered at once or becomes the uncertain one.
LEMMA PrepareCandidateFailsKeepsAnswers ==
  ASSUME PInv, NEW c \in Attempts, PrepareCandidateFails(c)
  PROVE  AnswersAgree' /\ ArtifactsAgree' /\ LaneAgrees'
<1> USE DEF PrepareCandidateFails, fileVars, journalVars, docVars, boundVars,
    MayCommit, Fault, NoFault
<1>0. /\ TypeOK /\ Ownership /\ Location /\ Evidence
      /\ AnswersAgree /\ ArtifactsAgree /\ LaneAgrees
  BY DEF PInv, IInv, EvidenceIsKept
<1>1. AnswersAgree'
  BY <1>0 DEF AnswersAgree, Kept, LivePhases, Ownership, Location, TypeOK
<1>2. ArtifactsAgree'
  BY <1>0 DEF ArtifactsAgree, Ownership, Location, Evidence, TypeOK, LivePhases
<1>3. LaneAgrees'
  BY <1>0 DEF LaneAgrees, ImportAgrees, PreservationAgrees, AckAgrees, AnswersAgree,
      ArtifactsAgree, Ownership, Location, Evidence, TypeOK, LivePhases
<1> QED BY <1>1, <1>2, <1>3

\* A journal that cannot be written takes the unused candidate with it.
LEMMA WriteJournalKeepsAnswers ==
  ASSUME PInv, NEW c \in Attempts, WriteJournal(c)
  PROVE  AnswersAgree' /\ ArtifactsAgree' /\ LaneAgrees'
<1> USE DEF WriteJournal, fileVars, journalVars, docVars, boundVars, Fault, NoFault
<1>0. /\ TypeOK /\ Ownership /\ Location /\ Evidence
      /\ AnswersAgree /\ ArtifactsAgree /\ LaneAgrees
  BY DEF PInv, IInv, EvidenceIsKept
<1>1. AnswersAgree'
  BY <1>0 DEF AnswersAgree, Kept, LivePhases, Ownership, Location, TypeOK
<1>2. ArtifactsAgree'
  BY <1>0 DEF ArtifactsAgree, Ownership, Location, Evidence, TypeOK, LivePhases
<1>3. LaneAgrees'
  BY <1>0 DEF LaneAgrees, ImportAgrees, PreservationAgrees, AckAgrees, AnswersAgree,
      ArtifactsAgree, Ownership, Location, Evidence, TypeOK, LivePhases
<1> QED BY <1>1, <1>2, <1>3

\* The swapped file is the payload, and the displaced one has a journal.
LEMMA SwapKeepsAnswers ==
  ASSUME PInv, NEW c \in Attempts, Swap(c)
  PROVE  AnswersAgree' /\ ArtifactsAgree' /\ LaneAgrees'
<1> USE DEF Swap, fileVars, journalVars, docVars, boundVars
<1>0. /\ TypeOK /\ Ownership /\ Location /\ Evidence
      /\ AnswersAgree /\ ArtifactsAgree /\ LaneAgrees
  BY DEF PInv, IInv, EvidenceIsKept
<1>1. AnswersAgree'
  BY <1>0 DEF AnswersAgree, Kept, LivePhases, Ownership, Location, TypeOK
<1>2. ArtifactsAgree'
  BY <1>0 DEF ArtifactsAgree, Ownership, Location, Evidence, TypeOK, LivePhases
<1>3. LaneAgrees'
  BY <1>0 DEF LaneAgrees, ImportAgrees, PreservationAgrees, AckAgrees, AnswersAgree,
      ArtifactsAgree, Ownership, Location, Evidence, TypeOK, LivePhases
<1> QED BY <1>1, <1>2, <1>3

\* A refused swap displaces nothing.
LEMMA SwapFailsKeepsAnswers ==
  ASSUME PInv, NEW c \in Attempts, SwapFails(c)
  PROVE  AnswersAgree' /\ ArtifactsAgree' /\ LaneAgrees'
<1> USE DEF SwapFails, fileVars, journalVars, docVars, boundVars, Fault, NoFault
<1>0. /\ TypeOK /\ Ownership /\ Location /\ Evidence
      /\ AnswersAgree /\ ArtifactsAgree /\ LaneAgrees
  BY DEF PInv, IInv, EvidenceIsKept
<1>1. AnswersAgree'
  BY <1>0 DEF AnswersAgree, Kept, LivePhases, Ownership, Location, TypeOK
<1>2. ArtifactsAgree'
  BY <1>0 DEF ArtifactsAgree, Ownership, Location, Evidence, TypeOK, LivePhases
<1>3. LaneAgrees'
  BY <1>0 DEF LaneAgrees, ImportAgrees, PreservationAgrees, AckAgrees, AnswersAgree,
      ArtifactsAgree, Ownership, Location, Evidence, TypeOK, LivePhases
<1> QED BY <1>1, <1>2, <1>3

\* After the flush no power loss takes the swap back.
LEMMA FlushSwapKeepsAnswers ==
  ASSUME PInv, NEW c \in Attempts, FlushSwap(c)
  PROVE  AnswersAgree' /\ ArtifactsAgree' /\ LaneAgrees'
<1> USE DEF FlushSwap, fileVars, journalVars, docVars, boundVars, Fault, NoFault, Answer
<1>0. /\ TypeOK /\ Ownership /\ Location /\ Evidence
      /\ AnswersAgree /\ ArtifactsAgree /\ LaneAgrees
  BY DEF PInv, IInv, EvidenceIsKept
<1>1. AnswersAgree'
  BY <1>0 DEF AnswersAgree, Kept, LivePhases, Ownership, Location, TypeOK
<1>2. ArtifactsAgree'
  BY <1>0 DEF ArtifactsAgree, Ownership, Location, Evidence, TypeOK, LivePhases
<1>3. LaneAgrees'
  BY <1>0 DEF LaneAgrees, ImportAgrees, PreservationAgrees, AckAgrees, AnswersAgree,
      ArtifactsAgree, Ownership, Location, Evidence, TypeOK, LivePhases
<1> QED BY <1>1, <1>2, <1>3

\* Contested is answered only after the flush.
LEMMA ReadDisplacedKeepsAnswers ==
  ASSUME PInv, NEW c \in Attempts, ReadDisplaced(c)
  PROVE  AnswersAgree' /\ ArtifactsAgree' /\ LaneAgrees'
<1> USE DEF ReadDisplaced, fileVars, journalVars, docVars, boundVars, Fault, NoFault,
    Answer
<1>0. /\ TypeOK /\ Ownership /\ Location /\ Evidence
      /\ AnswersAgree /\ ArtifactsAgree /\ LaneAgrees
  BY DEF PInv, IInv, EvidenceIsKept
<1>1. AnswersAgree'
  BY <1>0 DEF AnswersAgree, Kept, LivePhases, Ownership, Location, TypeOK
<1>2. ArtifactsAgree'
  BY <1>0 DEF ArtifactsAgree, Ownership, Location, Evidence, TypeOK, LivePhases
<1>3. LaneAgrees'
  BY <1>0 DEF LaneAgrees, ImportAgrees, PreservationAgrees, AckAgrees, AnswersAgree,
      ArtifactsAgree, Ownership, Location, Evidence, TypeOK, LivePhases
<1> QED BY <1>1, <1>2, <1>3

\* The acknowledgement of the committer requests no receipt of its own.
LEMMA CommitterAcknowledgesKeepsAnswers ==
  ASSUME PInv, NEW c \in Attempts, CommitterAcknowledges(c)
  PROVE  AnswersAgree' /\ ArtifactsAgree' /\ LaneAgrees'
<1> USE DEF CommitterAcknowledges, fileVars, journalVars, docVars, boundVars, Acknowledge
<1>0. /\ TypeOK /\ Ownership /\ Location /\ Evidence
      /\ AnswersAgree /\ ArtifactsAgree /\ LaneAgrees
  BY DEF PInv, IInv, EvidenceIsKept
<1>1. AnswersAgree'
  BY <1>0 DEF AnswersAgree, Kept, LivePhases, Ownership, Location, TypeOK
<1>2. ArtifactsAgree'
  BY <1>0 DEF ArtifactsAgree, Ownership, Location, Evidence, TypeOK, LivePhases
<1>3. LaneAgrees'
  BY <1>0 DEF LaneAgrees, ImportAgrees, PreservationAgrees, AckAgrees, AnswersAgree,
      ArtifactsAgree, Ownership, Location, Evidence, TypeOK, LivePhases
<1> QED BY <1>1, <1>2, <1>3

\* An attempt whose swap is found completed has displaced a file.
LEMMA ImportScanKeepsAnswers ==
  ASSUME PInv, ImportScan
  PROVE  AnswersAgree' /\ ArtifactsAgree' /\ LaneAgrees'
<1> USE DEF ImportScan, fileVars, journalVars, docVars, boundVars, Pending,
    JournalsReadable, SwapCompleted, OrphanRaw, Idle
<1>0. /\ TypeOK /\ Ownership /\ Location /\ Evidence
      /\ AnswersAgree /\ ArtifactsAgree /\ LaneAgrees
  BY DEF PInv, IInv, EvidenceIsKept
<1>1. AnswersAgree'
  BY <1>0 DEF AnswersAgree, Kept, LivePhases, Ownership, Location, TypeOK
<1>2. ArtifactsAgree'
  BY <1>0 DEF ArtifactsAgree, Ownership, Location, Evidence, TypeOK, LivePhases
<1>3. LaneAgrees'
  BY <1>0 DEF LaneAgrees, ImportAgrees, PreservationAgrees, AckAgrees, AnswersAgree,
      ArtifactsAgree, Ownership, Location, Evidence, TypeOK, LivePhases
<1> QED BY <1>1, <1>2, <1>3

\* Bytes that must be preserved are beside the target when the import gets to them.
LEMMA ImportNextKeepsAnswers ==
  ASSUME PInv, NEW c \in Attempts, ImportNext(c)
  PROVE  AnswersAgree' /\ ArtifactsAgree' /\ LaneAgrees'
<1> USE DEF fileVars, journalVars, docVars, boundVars
<1>0. /\ TypeOK /\ Ownership /\ Location /\ Evidence
      /\ AnswersAgree /\ ArtifactsAgree /\ LaneAgrees
  BY DEF PInv, IInv, EvidenceIsKept
<1>a. /\ lane \in LaneStates /\ lane.op = "import" /\ lane.step = "next"
      /\ c \in lane.todo
  BY <1>0 DEF TypeOK, ImportNext
<1>b. UNCHANGED <<fileVars, journalVars, raw, docVars, live, ready, discarded,
                  boundVars>>
  BY DEF ImportNext
<1>1. AnswersAgree' /\ ArtifactsAgree'
  BY <1>0, <1>b DEF AnswersAgree, ArtifactsAgree
<1>2. CASE MustPreserve(c)
  <2>1. lane' = [lane EXCEPT !.attempt = c, !.step = "payload"] /\ ack' = ack
    BY <1>2 DEF ImportNext
  <2>2. lane' = [op |-> "import", attempt |-> c, step |-> "payload",
                 todo |-> lane.todo, completed |-> lane.completed]
    BY <2>1, <1>a
  <2>3. ~(ack # Nothing /\ ack.attempt = c)
    BY <1>0, <1>a DEF Ownership
  <2>4. displaced[c] # Nothing /\ cand[c] = displaced[c] /\ displaced[c].ino # c
    BY <1>0, <1>2, <1>a, <2>3 DEF MustPreserve, LaneAgrees, ImportAgrees,
        PreservationAgrees, AckAgrees, Location, Evidence
  <2>5. ImportAgrees' /\ PreservationAgrees'
    BY <1>0, <1>2, <1>b, <2>2, <2>4
    DEF MustPreserve, LaneAgrees, ImportAgrees, PreservationAgrees
  <2>6. AckAgrees'
    BY <1>0, <1>b, <2>1 DEF LaneAgrees, AckAgrees
  <2> QED BY <1>1, <2>5, <2>6 DEF LaneAgrees
<1>3. CASE ~MustPreserve(c)
  <2>1. /\ lane' = [lane EXCEPT !.attempt = c, !.step = "acknowledging"]
        /\ ack' = [attempt |-> c, by |-> "import", requested |-> Nothing,
                   step |-> "receipt"]
    BY <1>3 DEF ImportNext, Acknowledge
  <2>2. lane' = [op |-> "import", attempt |-> c, step |-> "acknowledging",
                 todo |-> lane.todo, completed |-> lane.completed]
    BY <2>1, <1>a
  <2>3. ImportAgrees' /\ PreservationAgrees'
    BY <1>0, <1>b, <2>2 DEF LaneAgrees, ImportAgrees, PreservationAgrees
  <2>4. AckAgrees'
    BY <2>1 DEF AckAgrees
  <2> QED BY <1>1, <2>3, <2>4 DEF LaneAgrees
<1> QED BY <1>2, <1>3

\* An import turns contested answers into preserved ones.
LEMMA ImportDoneKeepsAnswers ==
  ASSUME PInv, ImportDone
  PROVE  AnswersAgree' /\ ArtifactsAgree' /\ LaneAgrees'
<1> USE DEF ImportDone, fileVars, journalVars, docVars, boundVars, Idle
<1>0. /\ TypeOK /\ Ownership /\ Location /\ Evidence
      /\ AnswersAgree /\ ArtifactsAgree /\ LaneAgrees
  BY DEF PInv, IInv, EvidenceIsKept
<1>1. AnswersAgree'
  BY <1>0 DEF AnswersAgree, Kept, LivePhases, Ownership, Location, TypeOK
<1>2. ArtifactsAgree'
  BY <1>0 DEF ArtifactsAgree, Ownership, Location, Evidence, TypeOK, LivePhases
<1>3. LaneAgrees'
  BY <1>0 DEF LaneAgrees, ImportAgrees, PreservationAgrees, AckAgrees, AnswersAgree,
      ArtifactsAgree, Ownership, Location, Evidence, TypeOK, LivePhases
<1> QED BY <1>1, <1>2, <1>3

\* The bytes of a contested attempt are beside the target until a raw entry has them.
LEMMA PersistRawKeepsAnswers ==
  ASSUME PInv, NEW c \in Attempts, PersistRaw(c)
  PROVE  AnswersAgree' /\ ArtifactsAgree' /\ LaneAgrees'
<1> USE DEF PersistRaw, fileVars, journalVars, docVars, boundVars, Idle
<1>0. /\ TypeOK /\ Ownership /\ Location /\ Evidence
      /\ AnswersAgree /\ ArtifactsAgree /\ LaneAgrees
  BY DEF PInv, IInv, EvidenceIsKept
<1>1. AnswersAgree'
  BY <1>0 DEF AnswersAgree, Kept, LivePhases, Ownership, Location, TypeOK
<1>2. ArtifactsAgree'
  BY <1>0 DEF ArtifactsAgree, Ownership, Location, Evidence, TypeOK, LivePhases
<1>2a. cand[c] # Nothing /\ cand[c].ino # c /\ cand[c].data # expected[c].data
  BY <1>0 DEF Location, Evidence, Consumable, Unexpected, Preserved
<1>3. LaneAgrees'
  BY <1>0, <1>2a DEF LaneAgrees, ImportAgrees, PreservationAgrees, AckAgrees,
      Ownership, TypeOK
<1> QED BY <1>1, <1>2, <1>3

\* Writing the raw entry moves no file.
LEMMA WriteRawKeepsAnswers ==
  ASSUME PInv, WriteRaw
  PROVE  AnswersAgree' /\ ArtifactsAgree' /\ LaneAgrees'
<1> USE DEF WriteRaw, fileVars, journalVars, docVars, boundVars, RawSteps, Fault,
    NoFault, Idle
<1>0. /\ TypeOK /\ Ownership /\ Location /\ Evidence
      /\ AnswersAgree /\ ArtifactsAgree /\ LaneAgrees
  BY DEF PInv, IInv, EvidenceIsKept
<1>1. AnswersAgree'
  BY <1>0 DEF AnswersAgree, Kept, LivePhases, Ownership, Location, TypeOK
<1>2. ArtifactsAgree'
  BY <1>0 DEF ArtifactsAgree, Ownership, Location, Evidence, TypeOK, LivePhases
<1>3. LaneAgrees'
  BY <1>0 DEF LaneAgrees, ImportAgrees, PreservationAgrees, AckAgrees, AnswersAgree,
      ArtifactsAgree, Ownership, Location, Evidence, TypeOK, LivePhases
<1> QED BY <1>1, <1>2, <1>3

\* The acknowledgement of a raw entry starts that of its journal.
LEMMA AcknowledgeRawKeepsAnswers ==
  ASSUME PInv, AcknowledgeRaw
  PROVE  AnswersAgree' /\ ArtifactsAgree' /\ LaneAgrees'
<1> USE DEF AcknowledgeRaw, fileVars, journalVars, docVars, boundVars, Acknowledge,
    Fault, NoFault, Idle
<1>0. /\ TypeOK /\ Ownership /\ Location /\ Evidence
      /\ AnswersAgree /\ ArtifactsAgree /\ LaneAgrees
  BY DEF PInv, IInv, EvidenceIsKept
<1>1. AnswersAgree'
  BY <1>0 DEF AnswersAgree, Kept, LivePhases, Ownership, Location, TypeOK
<1>2. ArtifactsAgree'
  BY <1>0 DEF ArtifactsAgree, Ownership, Location, Evidence, TypeOK, LivePhases
<1>3. LaneAgrees'
  BY <1>0 DEF LaneAgrees, ImportAgrees, PreservationAgrees, AckAgrees, AnswersAgree,
      ArtifactsAgree, Ownership, Location, Evidence, TypeOK, LivePhases
<1> QED BY <1>1, <1>2, <1>3

\* Only bytes whose artifact is gone can be discarded.
LEMMA DiscardRawKeepsAnswers ==
  ASSUME PInv, NEW c \in Attempts, DiscardRaw(c)
  PROVE  AnswersAgree' /\ ArtifactsAgree' /\ LaneAgrees'
<1> USE DEF DiscardRaw, fileVars, journalVars, docVars, boundVars, Idle
<1>0. /\ TypeOK /\ Ownership /\ Location /\ Evidence
      /\ AnswersAgree /\ ArtifactsAgree /\ LaneAgrees
  BY DEF PInv, IInv, EvidenceIsKept
<1>1. AnswersAgree'
  BY <1>0 DEF AnswersAgree, Kept, LivePhases, Ownership, Location, TypeOK
<1>2. ArtifactsAgree'
  BY <1>0 DEF ArtifactsAgree, Ownership, Location, Evidence, TypeOK, LivePhases
<1>3. LaneAgrees'
  BY <1>0 DEF LaneAgrees, ImportAgrees, PreservationAgrees, AckAgrees, AnswersAgree,
      ArtifactsAgree, Ownership, Location, Evidence, TypeOK, LivePhases
<1> QED BY <1>1, <1>2, <1>3

\* A reconciliation requests "committed" exactly when the swap took place.
LEMMA ReconcileKeepsAnswers ==
  ASSUME PInv, NEW c \in Attempts, Reconcile(c)
  PROVE  AnswersAgree' /\ ArtifactsAgree' /\ LaneAgrees'
<1> USE DEF Reconcile, fileVars, journalVars, docVars, boundVars, Acknowledge, Answer,
    Idle, Pending, JournalsReadable
<1>0. /\ TypeOK /\ Ownership /\ Location /\ Evidence
      /\ AnswersAgree /\ ArtifactsAgree /\ LaneAgrees
  BY DEF PInv, IInv, EvidenceIsKept
<1>1. AnswersAgree'
  BY <1>0 DEF AnswersAgree, Kept, LivePhases, Ownership, Location, TypeOK
<1>2. ArtifactsAgree'
  BY <1>0 DEF ArtifactsAgree, Ownership, Location, Evidence, TypeOK, LivePhases
<1>3. ImportAgrees' /\ PreservationAgrees'
  BY <1>0 DEF LaneAgrees, ImportAgrees, PreservationAgrees, TypeOK
<1>4. AckAgrees'
  BY <1>0 DEF AckAgrees, Location, ArtifactsAgree, Ownership, TypeOK
<1> QED BY <1>1, <1>2, <1>3, <1>4 DEF LaneAgrees

\* What the end of a process does to the answer of an attempt.
LEMMA ProcessAnswers ==
  ASSUME TypeOK, AnswersAgree, ProcessState, NEW c \in Attempts
  PROVE  /\ phase'[c] \in {"unused", "over"}
         /\ phase'[c] # "over" => answer'[c] = "none"
         /\ answer'[c] \in Kept <=> answer[c] \in Kept
<1> USE DEF ProcessState, TypeOK, Kept, AnswersAgree
<1>1. CASE answer[c] \in {"contested", "preserved"}
  BY <1>1
<1>2. CASE /\ answer[c] \notin {"contested", "preserved"}
           /\ answer[c] = "uncertain" \/ c = current
  BY <1>2
<1>3. CASE /\ answer[c] \notin {"contested", "preserved"}
           /\ answer[c] # "uncertain" /\ c # current
  BY <1>3
<1> QED BY <1>1, <1>2, <1>3

\* The end of the process leaves no answer open.
LEMMA ProcessEndsKeepsAnswers ==
  ASSUME PInv, ProcessEnds
  PROVE  AnswersAgree' /\ ArtifactsAgree' /\ LaneAgrees'
<1> USE DEF ProcessEnds, fileVars, journalVars, docVars, boundVars, ProcessState, Idle
<1>0. /\ TypeOK /\ Ownership /\ Location /\ Evidence
      /\ AnswersAgree /\ ArtifactsAgree /\ LaneAgrees
  BY DEF PInv, IInv, EvidenceIsKept
<1>1. AnswersAgree'
  <2> SUFFICES ASSUME NEW c \in Attempts
               PROVE  /\ phase'[c] \in {"unused", "over"}
                      /\ phase'[c] # "over" => answer'[c] = "none"
                      /\ answer'[c] \in Kept => answer[c] \in Kept
    BY <1>0 DEF AnswersAgree
  <2> QED BY <1>0, ProcessAnswers
<1>2. ArtifactsAgree'
  BY <1>0 DEF ArtifactsAgree, Ownership, Location, Evidence, TypeOK, LivePhases
<1>3. LaneAgrees'
  BY <1>0 DEF LaneAgrees, ImportAgrees, PreservationAgrees, AckAgrees, AnswersAgree,
      ArtifactsAgree, Ownership, Location, Evidence, TypeOK, LivePhases
<1> QED BY <1>1, <1>2, <1>3

\* A failed acknowledgement leaves the journal or a receipt.
LEMMA AckThrowsKeepsAnswers ==
  ASSUME PInv, ack # Nothing, AckThrows,
         UNCHANGED <<target, cand, displaced, unflushed, raw, discarded>>,
         \A c \in Attempts :
           /\ displaced[c] # Nothing =>
                journal'[c] # "notCommitted" /\ durable'[c] # "notCommitted"
           /\ journal[c] # "none" => journal'[c] # "none"
           /\ durable[c] # "none" => durable'[c] # "none"
  PROVE  AnswersAgree' /\ ArtifactsAgree' /\ LaneAgrees'
<1> USE DEF AckThrows, Answer, docVars, Idle
<1>0. /\ TypeOK /\ Ownership /\ Location /\ Evidence
      /\ AnswersAgree /\ ArtifactsAgree /\ LaneAgrees
  BY DEF PInv, IInv, EvidenceIsKept
<1>1. AnswersAgree'
  BY <1>0 DEF AnswersAgree, Kept, LivePhases, Ownership, Location, TypeOK
<1>2. ArtifactsAgree'
  BY <1>0 DEF ArtifactsAgree, Ownership, Location, Evidence, TypeOK, LivePhases
<1>3. LaneAgrees'
  BY <1>0 DEF LaneAgrees, ImportAgrees, PreservationAgrees, AckAgrees, AnswersAgree,
      ArtifactsAgree, Ownership, Location, Evidence, TypeOK, LivePhases
<1> QED BY <1>1, <1>2, <1>3

\* No receipt says that an attempt which displaced a file replaced nothing.
LEMMA AckReceiptKeepsAnswers ==
  ASSUME PInv, AckReceipt
  PROVE  AnswersAgree' /\ ArtifactsAgree' /\ LaneAgrees'
<1> USE DEF AckReceipt, fileVars, journalVars, docVars, NoFault
<1> DEFINE c == ack.attempt
<1>0. /\ TypeOK /\ Ownership /\ Location /\ Evidence
      /\ AnswersAgree /\ ArtifactsAgree /\ LaneAgrees
  BY DEF PInv, IInv, EvidenceIsKept
<1>1. c \in Attempts /\ ack \in Acknowledgements
  BY <1>0 DEF TypeOK
<1>2. ASSUME NEW r \in Receipts(c), r = "notCommitted"
      PROVE  displaced[c] = Nothing
  <2>1. CASE journal[c] \in Terminal
    BY <1>0, <1>1, <1>2, <2>1 DEF Receipts, ArtifactsAgree
  <2>2. CASE journal[c] \notin Terminal /\ ack.requested # Nothing
    <3>1. r = ack.requested
      BY <1>1, <1>2, <2>2 DEF Receipts
    <3>2. ack.by = "reconcile"
      BY <1>0, <2>2 DEF LaneAgrees, AckAgrees
    <3> QED BY <1>0, <1>2, <3>1, <3>2 DEF LaneAgrees, ImportAgrees, PreservationAgrees,
        AckAgrees
  <2>3. CASE journal[c] \notin Terminal /\ ack.requested = Nothing
    <3>1. cand[c] # Nothing /\ r \in Inferred(c)
      BY <1>1, <1>2, <2>3 DEF Receipts
    <3>2. cand[c].ino = c
      BY <1>2, <3>1 DEF Inferred
    <3> QED BY <1>0, <1>1, <3>1, <3>2 DEF Location
  <2> QED BY <2>1, <2>2, <2>3
<1>3. CASE journal[c] = "none" /\ NoFault /\ ack' = [ack EXCEPT !.step = "unlink"]
           /\ UNCHANGED <<journalVars, docVars, live, lane>>
  BY <1>0, <1>1, <1>3 DEF LaneAgrees, ImportAgrees, PreservationAgrees, AckAgrees,
      AnswersAgree, ArtifactsAgree
<1>4. ASSUME NEW r \in Receipts(c), journal[c] # "none",
             journal' = [journal EXCEPT ![c] = r],
             durable' = [durable EXCEPT ![c] = r],
             ack' = [ack EXCEPT !.step = "unlink"],
             UNCHANGED <<docVars, live, lane>>
      PROVE  AnswersAgree' /\ ArtifactsAgree' /\ LaneAgrees'
  BY <1>0, <1>1, <1>2, <1>4, ReceiptTypes DEF LaneAgrees, ImportAgrees,
      PreservationAgrees, AckAgrees, AnswersAgree, ArtifactsAgree, TypeOK
<1>5. ASSUME NEW r \in Receipts(c), journal[c] # "none",
             journal' \in {journal, [journal EXCEPT ![c] = r]},
             AckThrows, UNCHANGED durable
      PROVE  AnswersAgree' /\ ArtifactsAgree' /\ LaneAgrees'
  BY <1>0, <1>1, <1>2, <1>5, ReceiptTypes, AckThrowsKeepsAnswers DEF ArtifactsAgree,
      TypeOK
<1>6. CASE AckThrows /\ UNCHANGED journalVars
  BY <1>0, <1>6, AckThrowsKeepsAnswers DEF ArtifactsAgree
<1> QED BY <1>3, <1>4, <1>5, <1>6

\* The artifact is removed under a receipt.
LEMMA AckUnlinkKeepsAnswers ==
  ASSUME PInv, AckUnlink
  PROVE  AnswersAgree' /\ ArtifactsAgree' /\ LaneAgrees'
<1> USE DEF AckUnlink, fileVars, journalVars, docVars, NoFault
<1>0. /\ TypeOK /\ Ownership /\ Location /\ Evidence
      /\ AnswersAgree /\ ArtifactsAgree /\ LaneAgrees
  BY DEF PInv, IInv, EvidenceIsKept
<1>1. CASE AckThrows /\ UNCHANGED cand
  BY <1>0, <1>1, AckThrowsKeepsAnswers DEF ArtifactsAgree
<1>2. CASE /\ cand' = [cand EXCEPT ![ack.attempt] = Nothing]
           /\ ack' = [ack EXCEPT !.step = "journal"]
           /\ UNCHANGED <<docVars, live, lane>>
  <2>1. AnswersAgree' /\ ArtifactsAgree'
    BY <1>0, <1>2 DEF AnswersAgree, ArtifactsAgree, TypeOK
  <2>2. LaneAgrees'
    BY <1>0, <1>2 DEF LaneAgrees, ImportAgrees, PreservationAgrees, AckAgrees,
        Ownership, TypeOK
  <2> QED BY <2>1, <2>2
<1> QED BY <1>1, <1>2

\* The journal goes last, and the caller gets its answer.
LEMMA AckReturnsKeepsAnswers ==
  ASSUME PInv, ack # Nothing, ack.step = "journal", AckReturns,
         UNCHANGED <<target, cand, displaced, unflushed, raw, discarded>>,
         journal' = [journal EXCEPT ![ack.attempt] = "none"],
         durable' \in {durable, [durable EXCEPT ![ack.attempt] = "none"]}
  PROVE  AnswersAgree' /\ ArtifactsAgree' /\ LaneAgrees'
<1> DEFINE a == ack.attempt
<1> USE DEF docVars
<1>0. /\ TypeOK /\ Ownership /\ Location /\ Evidence
      /\ AnswersAgree /\ ArtifactsAgree /\ LaneAgrees
  BY DEF PInv, IInv, EvidenceIsKept
<1>a. /\ a \in Attempts /\ cand[a] = Nothing
      /\ ack.by \in {"committer", "import", "persistRaw", "reconcile"}
  BY <1>0 DEF TypeOK, LaneAgrees, ImportAgrees, PreservationAgrees, AckAgrees
<1> HIDE DEF a
<1>b. UNCHANGED <<payload, expected>> => ArtifactsAgree'
  BY <1>0, <1>a DEF ArtifactsAgree, TypeOK, a
<1>1. CASE ack.by = "committer"
  <2>1. /\ Answer(a, IF phase[a] = "verified" THEN "committed" ELSE "notStarted")
        /\ lane' = lane /\ ack' = Nothing
    BY <1>1 DEF AckReturns, a
  <2>2. AnswersAgree'
    BY <1>0, <1>a, <1>1, <2>1
    DEF AnswersAgree, Answer, Kept, LivePhases, Ownership, Location, TypeOK, a
  <2>3. LaneAgrees'
    BY <1>0, <1>a, <1>1, <2>1 DEF LaneAgrees, ImportAgrees, PreservationAgrees,
        AckAgrees, Answer, AnswersAgree, Ownership, TypeOK, a
  <2> QED BY <1>b, <2>1, <2>2, <2>3 DEF Answer
<1>2. CASE ack.by = "reconcile"
  <2>1. /\ Answer(a, ack.requested) /\ lane' = Idle /\ ack' = Nothing
    BY <1>2 DEF AckReturns, a
  <2>2. /\ current = a /\ answer[a] = "uncertain" /\ phase[a] = "over"
        /\ ack.requested \in {"committed", "notCommitted"}
        /\ ack.requested = "committed" => displaced[a] # Nothing
    BY <1>0, <1>a, <1>2 DEF LaneAgrees, ImportAgrees, PreservationAgrees, AckAgrees,
        Ownership, TypeOK, a
  <2>3. AnswersAgree'
    BY <1>0, <1>a, <2>1, <2>2 DEF AnswersAgree, Answer, Kept, TypeOK
  <2>4. LaneAgrees'
    BY <2>1 DEF LaneAgrees, ImportAgrees, PreservationAgrees, AckAgrees, Idle
  <2> QED BY <1>b, <2>1, <2>3, <2>4 DEF Answer
<1>3. CASE ack.by = "persistRaw"
  <2>1. /\ answer' = [answer EXCEPT ![a] = "preserved"]
        /\ lane' = Idle /\ ack' = Nothing
        /\ UNCHANGED <<baseline, current, phase, payload, expected, live>>
    BY <1>3 DEF AckReturns, a
  <2>2. answer[a] = "contested" /\ phase[a] = "over"
    BY <1>0, <1>a, <1>3 DEF LaneAgrees, ImportAgrees, PreservationAgrees, AckAgrees,
        Ownership, a
  <2>3. AnswersAgree'
    BY <1>0, <1>a, <2>1, <2>2 DEF AnswersAgree, Kept, TypeOK
  <2>4. LaneAgrees'
    BY <2>1 DEF LaneAgrees, ImportAgrees, PreservationAgrees, AckAgrees, Idle
  <2> QED BY <1>b, <2>1, <2>3, <2>4
<1>4. CASE ack.by = "import"
  <2>1. /\ lane' = [lane EXCEPT !.todo = @ \ {a}, !.step = "next", !.attempt = Nothing]
        /\ ack' = Nothing /\ UNCHANGED <<docVars, live>>
    BY <1>4 DEF AckReturns, a
  <2>2. lane \in LaneStates /\ lane.op = "import"
    BY <1>0, <1>4 DEF TypeOK, Ownership
  <2>3. lane' = [op |-> "import", attempt |-> Nothing, step |-> "next",
                 todo |-> lane.todo \ {a}, completed |-> lane.completed]
    BY <2>1, <2>2
  <2>4. AnswersAgree'
    BY <1>0, <2>1 DEF AnswersAgree
  <2>5. ImportAgrees' /\ PreservationAgrees'
    BY <1>0, <2>3 DEF LaneAgrees, ImportAgrees, PreservationAgrees
  <2>6. AckAgrees'
    BY <2>1 DEF AckAgrees
  <2> QED BY <1>b, <2>1, <2>4, <2>5, <2>6 DEF LaneAgrees, docVars
<1> QED BY <1>a, <1>1, <1>2, <1>3, <1>4

\* The journal is removed, or its removal fails.
LEMMA AckJournalKeepsAnswers ==
  ASSUME PInv, AckJournal
  PROVE  AnswersAgree' /\ ArtifactsAgree' /\ LaneAgrees'
<1> USE DEF AckJournal, fileVars, journalVars
<1>0. ArtifactsAgree
  BY DEF PInv
<1>1. CASE AckThrows /\ UNCHANGED journalVars
  BY <1>0, <1>1, AckThrowsKeepsAnswers DEF ArtifactsAgree
<1>2. CASE ~(AckThrows /\ UNCHANGED journalVars)
  BY <1>2, AckReturnsKeepsAnswers
<1> QED BY <1>1, <1>2

\* A power loss takes back only a swap that nobody was told of.
LEMMA PowerLossKeepsAnswers ==
  ASSUME PInv, PowerLoss
  PROVE  AnswersAgree' /\ ArtifactsAgree' /\ LaneAgrees'
<1> USE DEF PowerLoss, ProcessState, Idle
<1>0. /\ TypeOK /\ Ownership /\ Location /\ Evidence
      /\ AnswersAgree /\ ArtifactsAgree /\ LaneAgrees
  BY DEF PInv, IInv, EvidenceIsKept
<1>1. AnswersAgree'
  <2> SUFFICES ASSUME NEW c \in Attempts
               PROVE  /\ phase'[c] # "over" => answer'[c] = "none"
                      /\ phase'[c] \in {"unused", "over"}
                      /\ answer'[c] \in Kept => displaced'[c] # Nothing
    BY <1>0 DEF AnswersAgree, TypeOK
  <2>1. /\ phase'[c] \in {"unused", "over"}
        /\ phase'[c] # "over" => answer'[c] = "none"
        /\ answer'[c] \in Kept => answer[c] \in Kept
    BY <1>0, ProcessAnswers
  <2> QED BY <1>0, <2>1 DEF AnswersAgree, TypeOK
<1>2. ArtifactsAgree'
  BY <1>0 DEF ArtifactsAgree, Location, TypeOK
<1>3. LaneAgrees'
  BY <1>0 DEF LaneAgrees, ImportAgrees, PreservationAgrees, AckAgrees
<1> QED BY <1>1, <1>2, <1>3

------------------------------------------------------------------------------
(* Every action is a step of the promise, or none.                          *)

\* Functions of the attempts that agree everywhere but in one place.
LEMMA ExceptAt ==
  ASSUME NEW f, NEW g, NEW c \in Attempts, NEW v,
         f = [e \in Attempts |-> f[e]], g = [e \in Attempts |-> g[e]],
         g[c] = v, \A e \in Attempts \ {c} : g[e] = f[e]
  PROVE  g = [f EXCEPT ![c] = v]
<1>1. [f EXCEPT ![c] = v] = [e \in Attempts |-> IF e = c THEN v ELSE f[e]]
  OBVIOUS
<1>2. \A e \in Attempts : g[e] = IF e = c THEN v ELSE f[e]
  OBVIOUS
<1> QED BY <1>1, <1>2

\* Put and Held are functions of the attempts.
LEMMA MappedFunctions ==
  /\ Put = [e \in Attempts |-> Put[e]] /\ Held = [e \in Attempts |-> Held[e]]
  /\ Put' = [e \in Attempts |-> Put'[e]] /\ Held' = [e \in Attempts |-> Held'[e]]
BY DEF Put, Held

\* What an action that moves no bytes and answers nobody leaves alone.
LEMMA Stutters ==
  ASSUME UNCHANGED <<target, baseline, displaced, payload, cand, expected, raw, answer>>
  PROVE  UNCHANGED Promise!vars
BY DEF Promise!vars, FileBytes, KnownBytes, Put, Held, Told

\* An answer that is true is a Tell; an uncertain one tells nothing.
LEMMA AnswerRefines ==
  ASSUME TypeOK, NEW c \in Attempts, NEW a, Answer(c, a),
         answer[c] \in {"none", "uncertain"},
         UNCHANGED <<target, cand, displaced, raw>>,
         \/ a = "uncertain"
         \/ /\ a \in {"committed", "contested"}
            /\ displaced[c] # Nothing /\ payload[c] \in Contents
         \/ a \in {"notStarted", "notCommitted"} /\ displaced[c] = Nothing
  PROVE  Promise!Tell(c) \/ UNCHANGED Promise!vars
<1>1. Told[c] = Nothing
  BY DEF Told
<1>2. UNCHANGED <<payload, expected>> /\ answer' = [answer EXCEPT ![c] = a]
  BY DEF Answer
<1>3. Held' = Held /\ Put' = Put /\ FileBytes' = FileBytes
  BY <1>2 DEF Held, Put, FileBytes
<1>4. answer'[c] = a /\ \A e \in Attempts \ {c} : answer'[e] = answer[e]
  BY <1>2 DEF TypeOK
<1>5. CASE a = "uncertain"
  <2>1. Told' = Told
    BY <1>4, <1>5 DEF Told
  <2>2. KnownBytes' = KnownBytes
    BY <1>5 DEF Answer, KnownBytes
  <2> QED BY <1>3, <2>1, <2>2 DEF Promise!vars
<1>6. CASE a \in {"committed", "contested"} /\ displaced[c] # Nothing /\ payload[c] \in Contents
  <2>1. Told' = [Told EXCEPT ![c] = "committed"]
    BY <1>4, <1>6 DEF Told
  <2>2. KnownBytes' = payload[c]
    BY <1>6 DEF Answer, KnownBytes
  <2>3. Put[c] = payload[c] /\ Put[c] # Nothing
    BY <1>6 DEF Put
  <2> QED BY <1>1, <1>3, <2>1, <2>2, <2>3 DEF Promise!Tell
<1>7. CASE a \in {"notStarted", "notCommitted"} /\ displaced[c] = Nothing
  <2>1. Told' = [Told EXCEPT ![c] = "notCommitted"]
    BY <1>4, <1>7 DEF Told
  <2>2. KnownBytes' = KnownBytes
    BY <1>7 DEF Answer, KnownBytes
  <2>3. Put[c] = Nothing
    BY <1>7 DEF Put
  <2> QED BY <1>1, <1>3, <2>1, <2>2, <2>3 DEF Promise!Tell
<1> QED BY <1>5, <1>6, <1>7

\* Other programs may do to the file what they like.
LEMMA ExternalWriteRefines ==
  ASSUME PInv, ExternalWrite
  PROVE  Promise!External
<1>1. UNCHANGED <<baseline, displaced, payload, cand, expected, raw, answer>>
  BY DEF ExternalWrite, docVars
<1>2. UNCHANGED <<KnownBytes, Put, Held, Told>>
  BY <1>1 DEF KnownBytes, Put, Held, Told
<1>3. target' \in FileOrNothing
  BY ExternalWriteKeeps DEF PInv, IInv, TypeOK
<1>4. FileBytes' \in Promise!OrNothing
  BY <1>3 DEF FileBytes, Promise!OrNothing
<1> QED BY <1>2, <1>4 DEF Promise!External

\* Reading the file is learning it.
LEMMA ReadTargetRefines ==
  ASSUME PInv, ReadTarget
  PROVE  Promise!Learn
<1>1. /\ baseline' = target
      /\ UNCHANGED <<target, displaced, payload, cand, expected, raw, answer>>
  BY DEF ReadTarget, fileVars
<1> QED BY <1>1 DEF Promise!Learn, FileBytes, KnownBytes, Put, Held, Told

\* A candidate that has displaced nothing is not seen by the promise.
LEMMA PrepareCandidateRefines ==
  ASSUME PInv, NEW c \in Attempts, PrepareCandidate(c)
  PROVE  UNCHANGED Promise!vars
<1> USE DEF PrepareCandidate
<1>0. /\ TypeOK /\ Ownership /\ Location /\ Evidence
      /\ AnswersAgree /\ ArtifactsAgree /\ LaneAgrees
  BY DEF PInv, IInv, EvidenceIsKept
<1>1. displaced[c] = Nothing /\ cand[c] = Nothing
  BY <1>0 DEF Ownership
<1>2. cand'[c].ino = c /\ \A e \in Attempts \ {c} :
        cand'[e] = cand[e] /\ expected'[e] = expected[e] /\ payload'[e] = payload[e]
  BY <1>0 DEF TypeOK
<1>3. Held' = Held
  BY <1>1, <1>2 DEF Held
<1>4. Put' = Put
  BY <1>1, <1>2 DEF Put
<1> QED BY <1>3, <1>4 DEF Promise!vars, FileBytes, KnownBytes, Told

\* A refused attempt tells the document that nothing was replaced.
LEMMA PrepareCandidateFailsRefines ==
  ASSUME PInv, NEW c \in Attempts, PrepareCandidateFails(c)
  PROVE  Promise!Tell(c) \/ UNCHANGED Promise!vars
<1> USE DEF PrepareCandidateFails, fileVars
<1>0. /\ TypeOK /\ Ownership /\ Location /\ Evidence
      /\ AnswersAgree /\ ArtifactsAgree /\ LaneAgrees
  BY DEF PInv, IInv, EvidenceIsKept
<1>1. answer[c] = "none" /\ displaced[c] = Nothing
  BY <1>0 DEF AnswersAgree, Ownership
<1>2. /\ FileBytes' = FileBytes /\ KnownBytes' = KnownBytes
      /\ Put' = Put /\ Held' = Held
  BY DEF FileBytes, KnownBytes, Put, Held
<1>3. CASE answer' = [answer EXCEPT ![c] = "notStarted"]
  <2>1. answer'[c] = "notStarted" /\ \A e \in Attempts \ {c} : answer'[e] = answer[e]
    BY <1>0, <1>3 DEF TypeOK
  <2>2. Told[c] = Nothing /\ Told' = [Told EXCEPT ![c] = "notCommitted"]
    BY <1>1, <2>1 DEF Told
  <2>3. Put[c] = Nothing
    BY <1>1 DEF Put
  <2> QED BY <1>2, <2>2, <2>3 DEF Promise!Tell
<1>4. CASE answer' = [answer EXCEPT ![c] = "uncertain"]
  <2>1. answer'[c] = "uncertain" /\ \A e \in Attempts \ {c} : answer'[e] = answer[e]
    BY <1>0, <1>4 DEF TypeOK
  <2>2. Told' = Told
    BY <1>1, <2>1 DEF Told
  <2> QED BY <1>2, <2>2 DEF Promise!vars
<1> QED BY <1>3, <1>4

\* Journals and their candidates are not seen by the promise.
LEMMA WriteJournalRefines ==
  ASSUME PInv, NEW c \in Attempts, WriteJournal(c)
  PROVE  UNCHANGED Promise!vars
<1> USE DEF WriteJournal
<1>0. /\ TypeOK /\ Ownership /\ Location /\ Evidence
      /\ AnswersAgree /\ ArtifactsAgree /\ LaneAgrees
  BY DEF PInv, IInv, EvidenceIsKept
<1>1. answer[c] = "none" /\ displaced[c] = Nothing /\ cand[c] # Nothing /\ cand[c].ino = c
  BY <1>0 DEF AnswersAgree, Ownership, Location
<1>2. \A e \in Attempts \ {c} : cand'[e] = cand[e] /\ answer'[e] = answer[e]
  BY <1>0 DEF TypeOK
<1>3. cand'[c] \in {cand[c], Nothing} /\ answer'[c] \in {"none", "uncertain"}
  BY <1>0, <1>1 DEF TypeOK
<1>4. Held' = Held
  BY <1>1, <1>2, <1>3 DEF Held
<1>5. Told' = Told
  BY <1>1, <1>2, <1>3 DEF Told
<1> QED BY <1>4, <1>5 DEF Promise!vars, FileBytes, KnownBytes, Put

\* The swap is the replacement: what it takes away is held unless it was known.
LEMMA SwapRefines ==
  ASSUME PInv, NEW c \in Attempts, Swap(c)
  PROVE  Promise!Replace(c)
<1> USE DEF Swap
<1>0. /\ TypeOK /\ Ownership /\ Location /\ Evidence
      /\ AnswersAgree /\ ArtifactsAgree /\ LaneAgrees
  BY DEF PInv, IInv, EvidenceIsKept
<1>1. /\ raw[c] = Nothing /\ payload[c] \in Contents
      /\ displaced[c] = Nothing /\ answer[c] = "none"
      /\ baseline # Nothing /\ expected[c] = baseline
      /\ cand[c] # Nothing /\ cand[c].ino = c
      /\ target # Nothing /\ target.ino # c
      /\ target \in File /\ cand[c] \in File /\ baseline \in File
  BY <1>0 DEF Ownership, Location, AnswersAgree, LivePhases, TypeOK
<1>2. Told[c] = Nothing /\ Told' = Told /\ KnownBytes' = KnownBytes
  BY <1>1 DEF Told, KnownBytes
<1>3. FileBytes = target.data /\ KnownBytes = baseline.data
      /\ FileBytes # Nothing /\ KnownBytes # Nothing
  BY <1>1 DEF FileBytes, KnownBytes
<1>4. cand'[c] = target /\ \A e \in Attempts \ {c} : cand'[e] = cand[e]
  BY <1>0 DEF TypeOK
<1>5. displaced'[c] = target /\ \A e \in Attempts \ {c} : displaced'[e] = displaced[e]
  BY <1>0 DEF TypeOK
<1>6. FileBytes' = payload[c]
  BY <1>0, <1>1 DEF ArtifactsAgree, FileBytes
<1>7. Put[c] = Nothing /\ Put' = [Put EXCEPT ![c] = payload[c]]
  <2>1. Put[c] = Nothing /\ Put'[c] = payload[c] /\ \A e \in Attempts \ {c} : Put'[e] = Put[e]
    BY <1>1, <1>5 DEF Put
  <2> QED BY <2>1, ExceptAt, MappedFunctions
<1>8. Held[c] = Nothing
  BY <1>1 DEF Held
<1>9. Held' = IF target.data = baseline.data THEN Held
              ELSE [Held EXCEPT ![c] = target.data]
  <2>1. CASE target.data = baseline.data
    BY <1>1, <1>4, <2>1 DEF Held
  <2>2. CASE target.data # baseline.data
    <3>1. Held'[c] = target.data /\ \A e \in Attempts \ {c} : Held'[e] = Held[e]
      BY <1>1, <1>4, <2>2 DEF Held
    <3> QED BY <2>2, <3>1, ExceptAt, MappedFunctions
  <2> QED BY <2>1, <2>2
<1> QED BY <1>1, <1>2, <1>3, <1>6, <1>7, <1>9 DEF Promise!Replace

\* A flush tells nothing.
LEMMA FlushSwapRefines ==
  ASSUME PInv, NEW c \in Attempts, FlushSwap(c)
  PROVE  Promise!Tell(c) \/ UNCHANGED Promise!vars
<1> USE DEF FlushSwap
<1>0. /\ TypeOK /\ Ownership /\ Location /\ Evidence
      /\ AnswersAgree /\ ArtifactsAgree /\ LaneAgrees
  BY DEF PInv, IInv, EvidenceIsKept
<1>1. answer[c] = "none"
  BY <1>0 DEF AnswersAgree
<1>2. CASE Answer(c, "uncertain")
  BY <1>0, <1>1, <1>2, AnswerRefines
<1>3. CASE UNCHANGED <<baseline, payload, expected, answer>>
  BY <1>3, Stutters
<1> QED BY <1>2, <1>3

\* A contested answer says that the payload is in the file.
LEMMA ReadDisplacedRefines ==
  ASSUME PInv, NEW c \in Attempts, ReadDisplaced(c)
  PROVE  Promise!Tell(c) \/ UNCHANGED Promise!vars
<1> USE DEF ReadDisplaced, fileVars
<1>0. /\ TypeOK /\ Ownership /\ Location /\ Evidence
      /\ AnswersAgree /\ ArtifactsAgree /\ LaneAgrees
  BY DEF PInv, IInv, EvidenceIsKept
<1>1. answer[c] = "none" /\ displaced[c] # Nothing /\ payload[c] \in Contents
  BY <1>0 DEF AnswersAgree, Location, ArtifactsAgree
<1>2. CASE Answer(c, "contested") \/ Answer(c, "uncertain")
  BY <1>0, <1>1, <1>2, AnswerRefines
<1>3. CASE UNCHANGED <<baseline, payload, expected, answer>>
  BY <1>3, Stutters
<1> QED BY <1>2, <1>3

\* The result of an import tells the document what it knows already.
LEMMA ImportDoneRefines ==
  ASSUME PInv, ImportDone
  PROVE  UNCHANGED Promise!vars
BY DEF ImportDone, fileVars, Promise!vars, FileBytes, KnownBytes, Put, Held, Told

\* A raw entry has the bytes that are held already.
LEMMA WriteRawRefines ==
  ASSUME PInv, WriteRaw
  PROVE  UNCHANGED Promise!vars
<1> DEFINE c == lane.attempt
<1> USE DEF WriteRaw, fileVars, docVars
<1>0. /\ TypeOK /\ Ownership /\ Location /\ Evidence
      /\ AnswersAgree /\ ArtifactsAgree /\ LaneAgrees
  BY DEF PInv, IInv, EvidenceIsKept
<1>1. c \in Attempts /\ lane.step \in {"payload", "intend"}
  BY <1>0 DEF Ownership, TypeOK
<1>2. CASE raw[c] # Nothing
  <2>1. \A e \in Attempts :
          /\ raw'[e] = Nothing <=> raw[e] = Nothing
          /\ raw[e] # Nothing => raw'[e].data = raw[e].data
    BY <1>0, <1>1, <1>2 DEF TypeOK
  <2>2. Held' = Held
    BY <2>1 DEF Held
  <2> QED BY <2>2 DEF Promise!vars, FileBytes, KnownBytes, Put, Told
<1>3. CASE raw[c] = Nothing
  <2>1. /\ cand[c] # Nothing /\ cand[c].ino # c
        /\ cand[c].data # expected[c].data
    BY <1>0, <1>1, <1>3 DEF LaneAgrees, PreservationAgrees, Evidence
  <2>2. \A e \in Attempts \ {c} : raw'[e] = raw[e]
    BY <1>0, <1>1 DEF TypeOK
  <2>3. Held' = Held
    BY <2>1, <2>2 DEF Held
  <2> QED BY <2>3 DEF Promise!vars, FileBytes, KnownBytes, Put, Told
<1> QED BY <1>2, <1>3

\* The state of a raw entry is not seen by the promise.
LEMMA AcknowledgeRawRefines ==
  ASSUME PInv, AcknowledgeRaw
  PROVE  UNCHANGED Promise!vars
<1> DEFINE c == lane.attempt
<1> USE DEF AcknowledgeRaw, fileVars, docVars
<1>0. /\ TypeOK /\ Ownership /\ Location /\ Evidence
      /\ AnswersAgree /\ ArtifactsAgree /\ LaneAgrees
  BY DEF PInv, IInv, EvidenceIsKept
<1>1. c \in Attempts /\ raw[c] # Nothing
  BY <1>0 DEF Ownership, Evidence, TypeOK
<1>2. raw' \in {raw, [raw EXCEPT ![c].state = "acknowledged"]}
  OBVIOUS
<1>3. \A e \in Attempts :
        /\ raw'[e] = Nothing <=> raw[e] = Nothing
        /\ raw[e] # Nothing => raw'[e].data = raw[e].data
  BY <1>0, <1>1, <1>2 DEF TypeOK
<1>4. Held' = Held
  BY <1>3 DEF Held
<1> QED BY <1>4 DEF Promise!vars, FileBytes, KnownBytes, Put, Told

\* The user gives up the bytes themselves: they are nowhere else.
LEMMA DiscardRawRefines ==
  ASSUME PInv, NEW c \in Attempts, DiscardRaw(c)
  PROVE  Promise!Discard(c)
<1> USE DEF DiscardRaw, fileVars, docVars
<1>0. /\ TypeOK /\ Ownership /\ Location /\ Evidence
      /\ AnswersAgree /\ ArtifactsAgree /\ LaneAgrees
  BY DEF PInv, IInv, EvidenceIsKept
<1>1. cand[c] = Nothing \/ cand[c].ino = c
  BY <1>0 DEF ArtifactsAgree
<1>2. raw[c] \in RawEntries /\ raw'[c] = Nothing
      /\ \A e \in Attempts \ {c} : raw'[e] = raw[e]
  BY <1>0 DEF TypeOK
<1>3. Held[c] # Nothing
  BY <1>1, <1>2 DEF Held
<1>4. Held' = [Held EXCEPT ![c] = Nothing]
  <2>1. Held'[c] = Nothing /\ \A e \in Attempts \ {c} : Held'[e] = Held[e]
    BY <1>1, <1>2 DEF Held
  <2> QED BY <2>1, ExceptAt, MappedFunctions
<1> QED BY <1>3, <1>4 DEF Promise!Discard, FileBytes, KnownBytes, Put, Told

\* A contested reconciliation tells the document that its payload was put.
LEMMA ReconcileRefines ==
  ASSUME PInv, NEW c \in Attempts, Reconcile(c)
  PROVE  Promise!Tell(c) \/ UNCHANGED Promise!vars
<1> USE DEF Reconcile
<1>0. /\ TypeOK /\ Ownership /\ Location /\ Evidence
      /\ AnswersAgree /\ ArtifactsAgree /\ LaneAgrees
  BY DEF PInv, IInv, EvidenceIsKept
<1>1. CASE UNCHANGED docVars
  BY <1>1, Stutters DEF docVars
<1>2. CASE ~UNCHANGED docVars
  <2>1. Answer(c, "contested") /\ target.ino = c
    BY <1>2
  <2>2. displaced[c] # Nothing /\ payload[c] \in Contents
    BY <1>0, <2>1 DEF Location, ArtifactsAgree
  <2> QED BY <1>0, <2>1, <2>2, AnswerRefines
<1> QED BY <1>1, <1>2

\* A failed acknowledgement tells the document nothing.
LEMMA AckThrowsRefines ==
  ASSUME PInv, ack # Nothing, AckThrows,
         UNCHANGED <<target, cand, displaced, raw>>
  PROVE  \/ \E c \in Attempts : Promise!Tell(c)
         \/ UNCHANGED Promise!vars
<1> USE DEF AckThrows
<1>0. /\ TypeOK /\ Ownership /\ Location /\ Evidence
      /\ AnswersAgree /\ ArtifactsAgree /\ LaneAgrees
  BY DEF PInv, IInv, EvidenceIsKept
<1>1. CASE ack.by = "committer"
  <2>1. ack.attempt \in Attempts /\ answer[ack.attempt] = "none"
    BY <1>0, <1>1 DEF Ownership, AnswersAgree, TypeOK
  <2> QED BY <1>0, <1>1, <2>1, AnswerRefines
<1>2. CASE ack.by # "committer"
  BY <1>2, Stutters DEF docVars
<1> QED BY <1>1, <1>2

\* A receipt is not seen by the promise.
LEMMA AckReceiptRefines ==
  ASSUME PInv, AckReceipt
  PROVE  \/ \E c \in Attempts : Promise!Tell(c)
         \/ UNCHANGED Promise!vars
<1> USE DEF AckReceipt, fileVars
<1>1. CASE AckThrows
  BY <1>1, AckThrowsRefines
<1>2. CASE UNCHANGED docVars
  BY <1>2, Stutters DEF docVars
<1> QED BY <1>1, <1>2

\* Removing the displaced file leaves the raw entry that preserves it.
LEMMA AckUnlinkRefines ==
  ASSUME PInv, AckUnlink
  PROVE  \/ \E c \in Attempts : Promise!Tell(c)
         \/ UNCHANGED Promise!vars
<1> DEFINE c == ack.attempt
<1> USE DEF AckUnlink
<1>0. /\ TypeOK /\ Ownership /\ Location /\ Evidence
      /\ AnswersAgree /\ ArtifactsAgree /\ LaneAgrees
  BY DEF PInv, IInv, EvidenceIsKept
<1>1. CASE AckThrows /\ UNCHANGED cand
  BY <1>1, AckThrowsRefines
<1>2. CASE /\ cand' = [cand EXCEPT ![c] = Nothing]
           /\ UNCHANGED docVars
  <2>1. c \in Attempts /\ Consumable(c)
    BY <1>0 DEF TypeOK, Evidence
  <2>2. \/ cand[c] = Nothing \/ cand[c].ino = c
        \/ cand[c].data = expected[c].data
        \/ raw[c] # Nothing /\ raw[c].data = cand[c].data
    <3>1. CASE cand[c] # Nothing /\ cand[c].ino # c
      <4>1. cand[c] = displaced[c] /\ c \notin discarded
        BY <1>0, <2>1, <3>1 DEF Location, ArtifactsAgree
      <4> QED BY <2>1, <3>1, <4>1 DEF Consumable, Unexpected, Preserved
    <3> QED BY <3>1
  <2>3. cand'[c] = Nothing /\ \A e \in Attempts \ {c} : cand'[e] = cand[e]
    BY <1>0, <1>2, <2>1 DEF TypeOK
  <2>4. Held' = Held
    BY <1>2, <2>2, <2>3 DEF Held, docVars
  <2> QED BY <1>2, <2>4 DEF docVars, Promise!vars, FileBytes, KnownBytes, Put, Told
<1> QED BY <1>1, <1>2

\* The caller of an acknowledgement that has returned gets its answer.
LEMMA AckReturnsRefines ==
  ASSUME PInv, ack # Nothing, AckReturns,
         UNCHANGED <<target, cand, displaced, raw>>
  PROVE  \/ \E c \in Attempts : Promise!Tell(c)
         \/ UNCHANGED Promise!vars
<1> DEFINE a == ack.attempt
<1>0. /\ TypeOK /\ Ownership /\ Location /\ Evidence
      /\ AnswersAgree /\ ArtifactsAgree /\ LaneAgrees
  BY DEF PInv, IInv, EvidenceIsKept
<1>a. /\ a \in Attempts
      /\ ack.by \in {"committer", "import", "persistRaw", "reconcile"}
  BY <1>0 DEF TypeOK
<1> HIDE DEF a
<1>1. CASE ack.by = "committer"
  <2>1. Answer(a, IF phase[a] = "verified" THEN "committed" ELSE "notStarted")
    BY <1>1 DEF AckReturns, a
  <2>2. /\ answer[a] = "none" /\ phase[a] \in {"verified", "swapFailed"}
        /\ IF phase[a] = "verified"
           THEN displaced[a] # Nothing /\ payload[a] \in Contents
           ELSE displaced[a] = Nothing
    BY <1>0, <1>a, <1>1 DEF Ownership, AnswersAgree, Location, ArtifactsAgree, a
  <2> QED BY <1>0, <1>a, <2>1, <2>2, AnswerRefines
<1>2. CASE ack.by = "reconcile"
  <2>1. Answer(a, ack.requested)
    BY <1>2 DEF AckReturns, a
  <2>2. /\ answer[a] = "uncertain"
        /\ ack.requested \in {"committed", "notCommitted"}
        /\ (ack.requested = "committed") <=> (displaced[a] # Nothing)
        /\ displaced[a] # Nothing => payload[a] \in Contents
    BY <1>0, <1>a, <1>2 DEF LaneAgrees, AckAgrees, Ownership, ArtifactsAgree, TypeOK, a
  <2> QED BY <1>0, <1>a, <2>1, <2>2, AnswerRefines
<1>3. CASE ack.by = "persistRaw"
  <2>1. /\ answer' = [answer EXCEPT ![a] = "preserved"]
        /\ UNCHANGED <<baseline, payload, expected>>
    BY <1>3 DEF AckReturns, a
  <2>2. answer[a] = "contested"
    BY <1>0, <1>3 DEF LaneAgrees, AckAgrees, a
  <2>3. answer'[a] = "preserved" /\ \A e \in Attempts \ {a} : answer'[e] = answer[e]
    BY <1>0, <1>a, <2>1 DEF TypeOK
  <2>4. Told' = Told
    BY <2>2, <2>3 DEF Told
  <2> QED BY <2>1, <2>4 DEF Promise!vars, FileBytes, KnownBytes, Put, Held
<1>4. CASE ack.by = "import"
  <2>1. UNCHANGED docVars
    BY <1>4 DEF AckReturns
  <2> QED BY <2>1, Stutters DEF docVars
<1> QED BY <1>a, <1>1, <1>2, <1>3, <1>4

\* Removing the journal answers its caller.
LEMMA AckJournalRefines ==
  ASSUME PInv, AckJournal
  PROVE  \/ \E c \in Attempts : Promise!Tell(c)
         \/ UNCHANGED Promise!vars
BY AckThrowsRefines, AckReturnsRefines DEF AckJournal, fileVars

\* The end of the process forgets the baseline and tells nobody anything.
LEMMA ProcessStateRefines ==
  ASSUME PInv, ProcessState
  PROVE  /\ KnownBytes' = Nothing /\ Told' = Told
         /\ UNCHANGED <<payload, expected, raw>>
<1>0. TypeOK /\ AnswersAgree
  BY DEF PInv, IInv
<1>1. \A e \in Attempts :
        answer'[e] = answer[e] \/
        \/ answer[e] \in Kept /\ answer'[e] \in Kept
        \/ answer[e] \in {"none", "uncertain"} /\ answer'[e] = "lost"
  <2> SUFFICES ASSUME NEW e \in Attempts
               PROVE  answer'[e] = answer[e] \/
                      \/ answer[e] \in Kept /\ answer'[e] \in Kept
                      \/ answer[e] \in {"none", "uncertain"} /\ answer'[e] = "lost"
    OBVIOUS
  <2> USE <1>0 DEF ProcessState, TypeOK, AnswersAgree, Kept
  <2>1. CASE answer[e] \in {"contested", "preserved"}
    BY <2>1
  <2>2. CASE answer[e] = "uncertain" \/ e = current
    BY <2>2
  <2>3. CASE /\ answer[e] \notin {"contested", "preserved"}
             /\ answer[e] # "uncertain" /\ e # current
    BY <2>3
  <2> QED BY <2>1, <2>2, <2>3
<1>2. Told' = Told
  BY <1>1 DEF Told, Kept
<1> QED BY <1>2 DEF ProcessState, KnownBytes

\* The end of the process is forgetting the file.
LEMMA ProcessEndsRefines ==
  ASSUME PInv, ProcessEnds
  PROVE  Promise!Learn
<1>1. UNCHANGED <<target, cand, displaced>> /\ ProcessState
  BY DEF ProcessEnds, fileVars
<1> QED BY <1>1, ProcessStateRefines DEF Promise!Learn, FileBytes, Put, Held

\* A power loss that takes a replacement back takes back one nobody was told
\* of, and the bytes it held are the file again.
LEMMA PowerLossRefines ==
  ASSUME PInv, PowerLoss
  PROVE  Promise!Learn \/ \E c \in Attempts : Promise!Undo(c)
<1>0. /\ TypeOK /\ Ownership /\ Location /\ Evidence
      /\ AnswersAgree /\ ArtifactsAgree /\ LaneAgrees
  BY DEF PInv, IInv, EvidenceIsKept
<1>1. KnownBytes' = Nothing /\ Told' = Told /\ UNCHANGED <<payload, expected, raw>>
  BY ProcessStateRefines DEF PowerLoss
<1>3. CASE UNCHANGED <<target, cand, displaced>>
  BY <1>1, <1>3 DEF Promise!Learn, FileBytes, Put, Held
<1>4. ASSUME unflushed # Nothing, cand[unflushed] # Nothing,
             target' = cand[unflushed],
             cand' = [cand EXCEPT ![unflushed] = target],
             displaced' = [displaced EXCEPT ![unflushed] = Nothing]
      PROVE  \E c \in Attempts : Promise!Undo(c)
  <2> DEFINE c == unflushed
  <2>1. /\ c \in Attempts /\ cand[c] \in File
        /\ target # Nothing /\ target.ino = c /\ displaced[c] # Nothing
        /\ cand[c] = displaced[c] /\ cand[c].ino # c
        /\ payload[c] \in Contents
    BY <1>0, <1>4 DEF TypeOK, Location, ArtifactsAgree
  <2>2. cand'[c] = target /\ \A e \in Attempts \ {c} : cand'[e] = cand[e]
    BY <1>0, <1>4, <2>1 DEF TypeOK
  <2>3. displaced'[c] = Nothing /\ \A e \in Attempts \ {c} : displaced'[e] = displaced[e]
    BY <1>0, <1>4, <2>1 DEF TypeOK
  <2>4. answer[c] \notin Kept
    BY <1>0, <1>4, <2>1 DEF AnswersAgree
  <2>5. FileBytes' = cand[c].data /\ cand[c].data \in Contents
    BY <1>4, <2>1 DEF FileBytes
  <2> HIDE DEF c
  <2>6. Told[c] # "committed"
    BY <2>1, <2>4 DEF Told, Kept
  <2>7. Put[c] # Nothing /\ Put' = [Put EXCEPT ![c] = Nothing]
    <3>1. Put[c] # Nothing /\ Put'[c] = Nothing /\ \A e \in Attempts \ {c} : Put'[e] = Put[e]
      BY <1>1, <2>1, <2>3 DEF Put
    <3> QED BY <2>1, <3>1, ExceptAt, MappedFunctions
  <2>8. raw[c] # Nothing => raw[c].data = cand[c].data
    BY <1>0, <2>1 DEF Evidence
  <2>9. \A e \in Attempts \ {c} : Held'[e] = Held[e]
    BY <1>1, <2>1, <2>2 DEF Held
  <2>10. Held'[c] = IF raw[c] # Nothing THEN raw[c].data ELSE Nothing
    BY <1>1, <2>1, <2>2 DEF Held
  <2>11. Held[c] \in {cand[c].data, Held'[c]}
    BY <2>1, <2>10 DEF Held
  <2>12. raw[c] # Nothing => Held[c] = raw[c].data
    BY <2>1, <2>8 DEF Held
  <2>13. Held' \in {Held, [Held EXCEPT ![c] = Nothing]}
    <3>1. CASE raw[c] # Nothing
      BY <2>9, <2>10, <2>12, <3>1, MappedFunctions
    <3>2. CASE raw[c] = Nothing
      BY <2>1, <2>9, <2>10, <3>2, ExceptAt, MappedFunctions
    <3> QED BY <3>1, <3>2
  <2>14. Held[c] \in {Nothing, FileBytes', Held'[c]}
    BY <2>5, <2>11
  <2> QED BY <1>1, <2>1, <2>5, <2>6, <2>7, <2>13, <2>14 DEF Promise!Undo
<1> QED BY <1>3, <1>4 DEF PowerLoss

------------------------------------------------------------------------------
(* The theorems.                                                            *)

\* Nothing has been answered or displaced in an initial state.
LEMMA InitAgrees == Init => PInv
<1> SUFFICES ASSUME Init PROVE PInv
  OBVIOUS
<1>1. AnswersAgree
  BY DEF Init, AnswersAgree, Kept
<1>2. ArtifactsAgree
  BY DEF Init, ArtifactsAgree
<1>3. LaneAgrees
  BY DEF Init, Idle, LaneAgrees, ImportAgrees, PreservationAgrees, AckAgrees
<1> QED BY InitEstablishes, <1>1, <1>2, <1>3 DEF PInv

\* The initial states of FileCommit are initial states of the promise.
LEMMA InitRefines == Init => Promise!Init
<1> SUFFICES ASSUME Init PROVE Promise!Init
  OBVIOUS
<1>1. FileBytes \in Contents /\ KnownBytes = Nothing
  BY DEF Init, FileBytes, KnownBytes
<1>2. /\ Put = [c \in Attempts |-> Nothing]
      /\ Held = [c \in Attempts |-> Nothing]
      /\ Told = [c \in Attempts |-> Nothing]
  BY DEF Init, Put, Held, Told
<1> QED BY <1>1, <1>2 DEF Promise!Init

\* Every step keeps the invariant and is a step of the promise or none.
LEMMA NextRefines == PInv /\ [Next]_vars => PInv' /\ [Promise!Next]_(Promise!vars)
<1> SUFFICES ASSUME PInv, [Next]_vars
             PROVE  PInv' /\ [Promise!Next]_(Promise!vars)
  OBVIOUS
<1>0. IInv'
  BY NextKeeps DEF PInv
<1> DEFINE Goal == /\ AnswersAgree' /\ ArtifactsAgree' /\ LaneAgrees'
                   /\ Promise!Next \/ UNCHANGED Promise!vars
<1> USE DEF Promise!Next
<1>1. ASSUME ExternalWrite PROVE Goal
  BY <1>1, ExternalWriteKeepsAnswers, ExternalWriteRefines
<1>2. ASSUME ReadTarget PROVE Goal
  BY <1>2, ReadTargetKeepsAnswers, ReadTargetRefines
<1>3. ASSUME NEW c \in Attempts, PrepareCandidate(c) PROVE Goal
  BY <1>3, PrepareCandidateKeepsAnswers, PrepareCandidateRefines
<1>4. ASSUME NEW c \in Attempts, PrepareCandidateFails(c) PROVE Goal
  BY <1>4, PrepareCandidateFailsKeepsAnswers, PrepareCandidateFailsRefines
<1>5. ASSUME NEW c \in Attempts, WriteJournal(c) PROVE Goal
  BY <1>5, WriteJournalKeepsAnswers, WriteJournalRefines
<1>6. ASSUME NEW c \in Attempts, Swap(c) PROVE Goal
  BY <1>6, SwapKeepsAnswers, SwapRefines
<1>7. ASSUME NEW c \in Attempts, SwapFails(c) PROVE Goal
  BY <1>7, SwapFailsKeepsAnswers, Stutters DEF SwapFails, fileVars, docVars
<1>8. ASSUME NEW c \in Attempts, FlushSwap(c) PROVE Goal
  BY <1>8, FlushSwapKeepsAnswers, FlushSwapRefines
<1>9. ASSUME NEW c \in Attempts, ReadDisplaced(c) PROVE Goal
  BY <1>9, ReadDisplacedKeepsAnswers, ReadDisplacedRefines
<1>10. ASSUME NEW c \in Attempts, CommitterAcknowledges(c) PROVE Goal
  BY <1>10, CommitterAcknowledgesKeepsAnswers, Stutters DEF CommitterAcknowledges,
      fileVars, docVars
<1>11. ASSUME AckReceipt PROVE Goal
  BY <1>11, AckReceiptKeepsAnswers, AckReceiptRefines
<1>12. ASSUME AckUnlink PROVE Goal
  BY <1>12, AckUnlinkKeepsAnswers, AckUnlinkRefines
<1>13. ASSUME AckJournal PROVE Goal
  BY <1>13, AckJournalKeepsAnswers, AckJournalRefines
<1>14. ASSUME ImportScan PROVE Goal
  BY <1>14, ImportScanKeepsAnswers, Stutters DEF ImportScan, fileVars, docVars
<1>15. ASSUME NEW c \in Attempts, ImportNext(c) PROVE Goal
  BY <1>15, ImportNextKeepsAnswers, Stutters DEF ImportNext, fileVars, docVars
<1>16. ASSUME ImportDone PROVE Goal
  BY <1>16, ImportDoneKeepsAnswers, ImportDoneRefines
<1>17. ASSUME NEW c \in Attempts, PersistRaw(c) PROVE Goal
  BY <1>17, PersistRawKeepsAnswers, Stutters DEF PersistRaw, fileVars, docVars
<1>18. ASSUME WriteRaw PROVE Goal
  BY <1>18, WriteRawKeepsAnswers, WriteRawRefines
<1>19. ASSUME AcknowledgeRaw PROVE Goal
  BY <1>19, AcknowledgeRawKeepsAnswers, AcknowledgeRawRefines
<1>20. ASSUME NEW c \in Attempts, DiscardRaw(c) PROVE Goal
  BY <1>20, DiscardRawKeepsAnswers, DiscardRawRefines
<1>21. ASSUME NEW c \in Attempts, Reconcile(c) PROVE Goal
  BY <1>21, ReconcileKeepsAnswers, ReconcileRefines
<1>22. ASSUME ProcessEnds PROVE Goal
  BY <1>22, ProcessEndsKeepsAnswers, ProcessEndsRefines
<1>23. ASSUME PowerLoss PROVE Goal
  BY <1>23, PowerLossKeepsAnswers, PowerLossRefines
<1>24. ASSUME UNCHANGED vars PROVE Goal
  <2>1. AnswersAgree'
    BY <1>24 DEF PInv, AnswersAgree, vars
  <2>2. ArtifactsAgree'
    BY <1>24 DEF PInv, ArtifactsAgree, vars
  <2>3. LaneAgrees'
    BY <1>24 DEF PInv, LaneAgrees, ImportAgrees, PreservationAgrees, AckAgrees, vars
  <2> QED BY <1>24, <2>1, <2>2, <2>3, Stutters DEF vars
<1>25. Goal
  BY <1>1, <1>2, <1>3, <1>4, <1>5, <1>6, <1>7, <1>8, <1>9, <1>10, <1>11, <1>12,
     <1>13, <1>14, <1>15, <1>16, <1>17, <1>18, <1>19, <1>20, <1>21, <1>22, <1>23, <1>24
  DEF Next, CommitterStep, AckStep, LaneStep
<1> QED BY <1>0, <1>25 DEF PInv

\* What the document has been told, what was displaced and what the recovery
\* lane is doing agree in every reachable state.
THEOREM AnswersHold == Spec => []PInv
BY InitAgrees, NextRefines, PTL DEF Spec

\* The committer, its journal and the recovery lane keep the promise of
\* FileReplacement: bytes are replaced by a whole payload, what was displaced
\* is held until it is discarded, every answer is true, and no answer
\* "committed" is undone.
THEOREM CommitKeepsPromise == Spec => KeepsPromise
<1>1. Init => Promise!Init
  BY InitRefines
<1>2. PInv /\ [Next]_vars => [Promise!Next]_(Promise!vars)
  BY NextRefines
<1> QED BY <1>1, <1>2, AnswersHold, PTL DEF Spec, KeepsPromise, Promise!Spec
==============================================================================
