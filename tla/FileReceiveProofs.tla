------------------------- MODULE FileReceiveProofs -------------------------
(***************************************************************************)
(* The receiver of chat_cli listen keeps only whole files, whatever        *)
(* notifies it is sent.                                                    *)
(*                                                                         *)
(* The invariant says more than KeptFilesAreWhole about the file being     *)
(* received: it is the only one whose path is neither reported nor torn,   *)
(* and the disk holds exactly the bytes counted for it.  Without that a    *)
(* discard could remove a reported file, and a validated one could differ  *)
(* from what is on the disk.                                               *)
(***************************************************************************)
EXTENDS FileReceive, TLAPS

\* The file being received: a path of its own, and on the disk what was counted.
FileInProgress ==
    receiving.active =>
        /\ receiving.path \in Paths
        /\ disk[receiving.path] = receiving.got
        /\ reported[receiving.path] = NoFile
        /\ receiving.path \notin torn

\* Outside the loop nothing is being received.
IdleWhenDone == ~listening => ~receiving.active

\* What was reported as received is there.
ReportedExist == \A p \in Paths : reported[p] # NoFile => disk[p] # NoFile

ReceiveInvariant ==
    ReceiveTypeOK /\ FileInProgress /\ IdleWhenDone /\ ReportedExist /\ KeptFilesAreWhole

\* Announcements and chunks of any instance: nothing below depends on which come.
Announced == [id : Nat, whole : Seq(Data), name : Names]
Pieces == [id : Nat, index : Nat, bytes : Seq(Data)]

\* What a receiver may do when any of them comes.
ReceiveStep ==
    \/ \E o \in Announced : BeginFile(o)
    \/ \E c \in Pieces : WriteChunk(c)
    \/ \E id \in Nat : FinishFile(id)
    \/ EndListen
    \/ KillListener

\* A directory without the file being received has the paths and contents it had.
LEMMA DiscardedType ==
    ASSUME ReceiveTypeOK
    PROVE  Discarded \in [Paths -> Seq(Data) \cup {NoFile}]
  BY DEF ReceiveTypeOK, Discarded

\* What a discard leaves.  No path but that of the file being received changes or
\* becomes torn, nothing appears, and every file that is left is torn or as reported.
LEMMA DiscardsLeave ==
    ASSUME ReceiveInvariant, NEW left \in Discards
    PROVE  /\ left.disk \in [Paths -> Seq(Data) \cup {NoFile}]
           /\ left.torn \in SUBSET Paths
           /\ \A p \in Paths : left.disk[p] # NoFile => disk[p] # NoFile
           /\ \A p \in Paths : reported[p] # NoFile => left.disk[p] = disk[p]
           /\ \A p \in Paths : left.disk[p] # NoFile => p \in left.torn \/ left.disk[p] = reported[p]
           /\ \A p \in Paths : reported[p] # NoFile => p \in left.torn \/ left.disk[p] = reported[p]
<1> USE DEF ReceiveInvariant
<1>1. CASE left = [disk |-> Discarded, torn |-> torn]
  <2>1. left.disk = Discarded /\ left.torn = torn
    BY <1>1
  <2> QED
    BY <2>1, DiscardedType DEF Discarded, KeptFilesAreWhole, ReceiveTypeOK, FileInProgress
<1>2. CASE receiving.active /\ left = [disk |-> disk, torn |-> torn \cup {receiving.path}]
  <2>1. left.disk = disk /\ left.torn = torn \cup {receiving.path}
    BY <1>2
  <2> QED
    BY <1>2, <2>1 DEF KeptFilesAreWhole, ReceiveTypeOK, FileInProgress
<1> QED
  BY <1>1, <1>2 DEF Discards

\* The notifies of an instance are such announcements and chunks.
LEMMA StepsOfAnInstance == ReceiveNext => ReceiveStep
  BY ReceiveAssumption DEF ReceiveAssumption, ReceiveNext, ReceiveStep, Announced, Pieces

\* The receiver starts with nothing received and nothing reported.
LEMMA ReceiveInitHolds == ReceiveInit => ReceiveInvariant
  BY DEF ReceiveInit, ReceiveInvariant, ReceiveTypeOK, FileInProgress, IdleWhenDone, ReportedExist, KeptFilesAreWhole,
         NothingReceived

\* A file begins on a path that is free or taken over, after the last one is gone.
LEMMA BeginKeeps ==
    ASSUME ReceiveInvariant, NEW o \in Announced, BeginFile(o)
    PROVE  ReceiveInvariant'
<1> USE DEF ReceiveInvariant
<1>1. PICK left \in Discards, path \in Paths :
        /\ receiving' = [active |-> TRUE, id |-> o.id, whole |-> o.whole, next |-> 0,
                         path |-> path, got |-> <<>>]
        /\ disk' = [left.disk EXCEPT ![path] = <<>>]
        /\ reported' = [reported EXCEPT ![path] = NoFile]
        /\ torn' = left.torn \ {path}
  BY DEF BeginFile
<1>2. listening /\ listening' = listening
  BY DEF BeginFile
<1>3. left.disk \in [Paths -> Seq(Data) \cup {NoFile}] /\ left.torn \in SUBSET Paths
  BY DiscardsLeave
<1>4. <<>> \in Seq(Data)
  OBVIOUS
<1>5. ReceiveTypeOK'
  BY <1>1, <1>2, <1>3, <1>4 DEF ReceiveTypeOK, Announced
<1>6. FileInProgress'
  BY <1>1, <1>3 DEF FileInProgress, ReceiveTypeOK
<1>7. \A p \in Paths : left.disk[p] # NoFile => p \in left.torn \/ left.disk[p] = reported[p]
  BY DiscardsLeave
<1>8. \A p \in Paths : reported[p] # NoFile => p \in left.torn \/ left.disk[p] = reported[p]
  BY DiscardsLeave
<1>9. KeptFilesAreWhole'
  BY <1>1, <1>3, <1>7, <1>8 DEF KeptFilesAreWhole, ReceiveTypeOK
<1>10. <<>> # NoFile
  BY <1>4, ReceiveAssumption DEF ReceiveAssumption
<1>11. ReportedExist'
  <2>1. \A p \in Paths : reported[p] # NoFile => left.disk[p] # NoFile
    BY DiscardsLeave DEF ReportedExist
  <2> QED
    BY <1>1, <1>3, <1>10, <2>1 DEF ReportedExist, ReceiveTypeOK
<1> QED
  BY <1>2, <1>5, <1>6, <1>9, <1>11 DEF IdleWhenDone

\* A chunk changes the file being received and no other.
LEMMA WriteKeeps ==
    ASSUME ReceiveInvariant, NEW c \in Pieces, WriteChunk(c)
    PROVE  ReceiveInvariant'
<1> USE DEF ReceiveInvariant
<1>1. c.bytes \in Seq(Data)
  BY DEF Pieces
<1>2. receiving.got \o c.bytes \in Seq(Data)
  BY <1>1 DEF ReceiveTypeOK
<1>3. /\ receiving.active /\ listening
      /\ receiving' = [receiving EXCEPT !.next = @ + 1, !.got = @ \o c.bytes]
      /\ disk' = [disk EXCEPT ![receiving.path] = receiving.got \o c.bytes]
      /\ UNCHANGED <<listening, reported, torn>>
  BY DEF WriteChunk, Expects
<1>4. ReceiveTypeOK'
  <2>1. receiving' \in [active : BOOLEAN, id : Nat, whole : Seq(Data), next : Nat,
                        path : Paths \cup {NoPath}, got : Seq(Data)]
    <3>1. receiving.next + 1 \in Nat
      BY DEF ReceiveTypeOK
    <3> QED
      BY <1>2, <1>3, <3>1 DEF ReceiveTypeOK
  <2>2. disk' \in [Paths -> Seq(Data) \cup {NoFile}]
    BY <1>2, <1>3 DEF ReceiveTypeOK
  <2> QED
    BY <1>3, <2>1, <2>2 DEF ReceiveTypeOK
<1>5. FileInProgress'
  BY <1>3 DEF FileInProgress, ReceiveTypeOK
<1>7. ReportedExist'
  BY <1>2, <1>3, ReceiveAssumption DEF ReportedExist, ReceiveTypeOK, ReceiveAssumption
<1>6. KeptFilesAreWhole'
  BY <1>3 DEF KeptFilesAreWhole, FileInProgress, ReceiveTypeOK
<1> QED
  BY <1>3, <1>4, <1>5, <1>6, <1>7 DEF IdleWhenDone

\* A file is reported when it is whole; one whose close failed is torn.
LEMMA FinishKeeps ==
    ASSUME ReceiveInvariant, NEW id, FinishFile(id)
    PROVE  ReceiveInvariant'
<1> USE DEF ReceiveInvariant
<1>1. /\ receiving.active /\ listening /\ listening' = listening
      /\ receiving.got = receiving.whole
      /\ receiving' = [receiving EXCEPT !.active = FALSE]
      /\ reported' = [reported EXCEPT ![receiving.path] = receiving.whole]
  BY DEF FinishFile, Validated, AfterFinish
<1>2. CASE UNCHANGED <<disk, torn>>
  <2>1. ReceiveTypeOK'
    BY <1>1, <1>2 DEF ReceiveTypeOK, FileInProgress
  <2>2. KeptFilesAreWhole'
    BY <1>1, <1>2 DEF KeptFilesAreWhole, FileInProgress, ReceiveTypeOK
  <2>3. ReportedExist'
    BY <1>1, <1>2, ReceiveAssumption
       DEF ReportedExist, FileInProgress, ReceiveTypeOK, ReceiveAssumption
  <2> QED
    BY <1>1, <2>1, <2>2, <2>3 DEF FileInProgress, IdleWhenDone
<1>3. CASE /\ \E n \in 0 .. Len(receiving.got) - 1 :
                 disk' = [disk EXCEPT ![receiving.path] = SubSeq(receiving.got, 1, n)]
           /\ torn' = torn \cup {receiving.path}
  <2>1. PICK n \in 0 .. Len(receiving.got) - 1 :
              disk' = [disk EXCEPT ![receiving.path] = SubSeq(receiving.got, 1, n)]
    BY <1>3
  <2>2. SubSeq(receiving.got, 1, n) \in Seq(Data)
    BY DEF ReceiveTypeOK
  <2>3. ReceiveTypeOK'
    BY <1>1, <1>3, <2>1, <2>2, ZenonT(40) DEF ReceiveTypeOK, FileInProgress
  <2>4. KeptFilesAreWhole'
    BY <1>1, <1>3, <2>1 DEF KeptFilesAreWhole, FileInProgress, ReceiveTypeOK
  <2>5. ReportedExist'
    BY <1>1, <2>1, <2>2, ReceiveAssumption
       DEF ReportedExist, FileInProgress, ReceiveTypeOK, ReceiveAssumption
  <2> QED
    BY <1>1, <2>3, <2>4, <2>5 DEF FileInProgress, IdleWhenDone
<1> QED
  BY <1>2, <1>3 DEF FinishFile

\* The end of the command removes what is not complete.
LEMMA EndKeeps ==
    ASSUME ReceiveInvariant, EndListen
    PROVE  ReceiveInvariant'
<1> USE DEF ReceiveInvariant
<1>1. PICK left \in Discards : disk' = left.disk /\ torn' = left.torn
  BY DEF EndListen
<1>6. listening' = FALSE /\ receiving' = NothingReceived /\ reported' = reported
  BY DEF EndListen
<1>2. left.disk \in [Paths -> Seq(Data) \cup {NoFile}] /\ left.torn \in SUBSET Paths
  BY DiscardsLeave
<1>0. <<>> \in Seq(Data)
  OBVIOUS
<1>3. ReceiveTypeOK'
  BY <1>0, <1>1, <1>2, <1>6 DEF ReceiveTypeOK, NothingReceived
<1>5. ReportedExist'
  BY <1>1, <1>6, DiscardsLeave DEF ReportedExist
<1>4. KeptFilesAreWhole'
  BY <1>1, <1>6, DiscardsLeave DEF KeptFilesAreWhole
<1> QED
  BY <1>3, <1>4, <1>5, <1>6 DEF FileInProgress, IdleWhenDone, NothingReceived

\* A kill leaves the file being received torn.
LEMMA KillKeeps ==
    ASSUME ReceiveInvariant, KillListener
    PROVE  ReceiveInvariant'
<1> USE DEF ReceiveInvariant
<1>1. /\ listening' = FALSE
      /\ receiving' = NothingReceived
      /\ torn' = IF receiving.active THEN torn \cup {receiving.path} ELSE torn
      /\ UNCHANGED <<disk, reported>>
  BY DEF KillListener
<1>0. <<>> \in Seq(Data)
  OBVIOUS
<1>2. ReceiveTypeOK'
  BY <1>0, <1>1 DEF ReceiveTypeOK, FileInProgress, NothingReceived
<1>3. KeptFilesAreWhole'
  BY <1>1 DEF KeptFilesAreWhole, FileInProgress, ReceiveTypeOK, NothingReceived
<1> QED
  BY <1>1, <1>2, <1>3 DEF FileInProgress, IdleWhenDone, ReportedExist, NothingReceived

\* Every step of the receiver keeps the invariant.
LEMMA ReceiveStepKeeps == ReceiveInvariant /\ [ReceiveStep]_receiveVars => ReceiveInvariant'
<1> SUFFICES ASSUME ReceiveInvariant, [ReceiveStep]_receiveVars
             PROVE  ReceiveInvariant'
  OBVIOUS
<1>1. CASE UNCHANGED receiveVars
  BY <1>1 DEF ReceiveInvariant, ReceiveTypeOK, FileInProgress, IdleWhenDone, ReportedExist,
                  KeptFilesAreWhole, receiveVars
<1>2. CASE ReceiveStep
  BY <1>2, BeginKeeps, WriteKeeps, FinishKeeps, EndKeeps, KillKeeps DEF ReceiveStep
<1> QED
  BY <1>1, <1>2

\* The invariant holds in every state of the receiver.
THEOREM ReceiveInvariantHolds == ReceiveSpec => []ReceiveInvariant
<1>1. ReceiveInvariant /\ [ReceiveNext]_receiveVars => ReceiveInvariant'
  BY StepsOfAnInstance, ReceiveStepKeeps
<1> QED
  BY <1>1, ReceiveInitHolds, PTL DEF ReceiveSpec

\* The receiver's state has its types: a file being received has a path of the
\* directory, and what is on the disk are sequences of the content's units.
THEOREM ReceiverTypeCorrect == ReceiveSpec => []ReceiveTypeOK
<1>1. ReceiveInvariant => ReceiveTypeOK
  BY DEF ReceiveInvariant
<1> QED
  BY <1>1, ReceiveInvariantHolds, PTL

\* Whatever is announced, sent, repeated or left out, and however the command ends:
\* a file in the output directory that is not being received was reported and is
\* what was announced, unless a kill, or a close or removal that failed, left it behind
\* (handle_file_notify, discard_partial_file).
THEOREM OnlyWholeFilesStay == ReceiveSpec => []KeptFilesAreWhole
<1>1. ReceiveInvariant => KeptFilesAreWhole
  BY DEF ReceiveInvariant
<1> QED
  BY <1>1, ReceiveInvariantHolds, PTL

\* What a step may change of a reported file: only a start whose name has run out
\* of paths overwrites one.
LEMMA ReportedUnlessTaken ==
    ASSUME ReceiveInvariant, [ReceiveStep]_receiveVars, NEW p \in Paths,
           reported[p] # NoFile, disk'[p] # disk[p]
    PROVE  \E n \in Names : p = Candidates[n][1] /\ Taken(disk, n)
<1> USE DEF ReceiveInvariant
<1>1. receiving.active => receiving.path # p
  BY DEF FileInProgress
<1>2. \A left \in Discards : left.disk[p] = disk[p]
  BY DiscardsLeave
<1>3. ASSUME NEW o \in Announced, BeginFile(o)
      PROVE  \E n \in Names : p = Candidates[n][1] /\ Taken(disk, n)
  <2>1. PICK left \in Discards, path \in Paths :
          /\ IsOutputPath(left.disk, o.name, path)
          /\ disk' = [left.disk EXCEPT ![path] = <<>>]
    BY <1>3 DEF BeginFile
  <2>2. path = p
    BY <1>2, <2>1, DiscardsLeave
  <2>3. left.disk[p] # NoFile
    BY <1>2 DEF ReportedExist
  <2>4. Taken(left.disk, o.name) /\ p = Candidates[o.name][1]
    BY <2>1, <2>2, <2>3 DEF IsOutputPath
  <2>5. \A i \in DOMAIN Candidates[o.name] : Candidates[o.name][i] \in Paths
    BY ReceiveAssumption DEF ReceiveAssumption, Announced
  <2>6. \A q \in Paths : left.disk[q] # NoFile => disk[q] # NoFile
    BY DiscardsLeave
  <2>7. Taken(disk, o.name)
    BY <2>4, <2>5, <2>6 DEF Taken
  <2> QED
    BY <2>4, <2>7 DEF Announced
<1>4. ASSUME NEW c \in Pieces, WriteChunk(c)
      PROVE  FALSE
  BY <1>1, <1>4 DEF WriteChunk, Expects, ReceiveTypeOK
<1>5. ASSUME NEW id, FinishFile(id)
      PROVE  FALSE
  BY <1>1, <1>5 DEF FinishFile, Validated, ReceiveTypeOK
<1>6. CASE EndListen
  BY <1>2, <1>6 DEF EndListen
<1>7. CASE KillListener \/ UNCHANGED receiveVars
  BY <1>7 DEF KillListener, receiveVars
<1> QED
  BY <1>3, <1>4, <1>5, <1>6, <1>7 DEF ReceiveStep

\* What was received stays: once a file is reported, no later start, chunk, discard or
\* end of the command changes or removes it, unless every name unique_output_path
\* would try is taken (it then returns the first one).
THEOREM ReportedFilesStay == ReceiveSpec => ReceivedFilesStay
<1>1. ReceiveInvariant /\ [ReceiveNext]_receiveVars =>
        [\A p \in Paths : reported[p] # NoFile /\ disk'[p] # disk[p] =>
            \E n \in Names : p = Candidates[n][1] /\ Taken(disk, n)]_receiveVars
  BY StepsOfAnInstance, ReportedUnlessTaken
<1> QED
  BY <1>1, ReceiveInvariantHolds, PTL DEF ReceiveSpec, ReceivedFilesStay
=============================================================================
