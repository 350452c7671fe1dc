---------------------------- MODULE FileReceive ----------------------------
(***************************************************************************)
(* How `chat_cli listen` turns file notifies into files of its output      *)
(* directory (handle_file_notify in cli_support.cpp).  The notifies are    *)
(* arbitrary here: nothing is assumed of the server or of the sender.      *)
(*                                                                         *)
(* A CRC-32 stands for the content it was computed from, so two contents   *)
(* of the same length and checksum are taken to be the same.               *)
(***************************************************************************)
EXTENDS Integers, Sequences

CONSTANTS
    Data,        \* units of content
    Paths,       \* file names the directory can hold
    NoPath,      \* an empty path
    NoFile,      \* no file has the name
    Names,       \* file names senders announce
    Candidates,  \* name -> the paths tried for it in turn: f.txt, f_1.txt, ...
    Offers,      \* announcements of an instance
    Chunks       \* chunks of an instance

ASSUME ReceiveAssumption ==
    /\ NoPath \notin Paths
    /\ NoFile \notin Seq(Data)
    /\ Candidates \in [Names -> Seq(Paths) \ {<<>>}]
    /\ Offers \subseteq [id : Nat, whole : Seq(Data) \ {<<>>}, name : Names]
    /\ Chunks \subseteq [id : Nat, index : Nat, bytes : Seq(Data)]

VARIABLES
    listening,   \* the command is in its loop
    receiving,   \* ReceiveFileState
    disk,        \* path -> the content of the file, or NoFile
    reported,    \* path -> the content announced for the file printed as FILE_RECEIVED
    torn         \* files that a killed program, or a failed close or removal, left as they were

receiveVars == <<listening, receiving, disk, reported, torn>>

\* reset_file_state.  `whole` is expected_size and expected_crc32, `got` is
\* bytes_written and crc32.
NothingReceived ==
    [active |-> FALSE, id |-> 0, whole |-> <<>>, next |-> 0, path |-> NoPath, got |-> <<>>]

\* Mutant of Discarded: the partial file is not removed.
LeftAsIs == disk

\* The directory once discard_partial_file has removed the file being received.
Discarded == IF receiving.active THEN [disk EXCEPT ![receiving.path] = NoFile] ELSE disk

\* What discard_partial_file makes of the directory.  The error of remove is not
\* looked at: the partial file may stay.
Discards == {[disk |-> Discarded, torn |-> torn]} \cup
            IF receiving.active THEN {[disk |-> disk, torn |-> torn \cup {receiving.path}]} ELSE {}

Taken(d, name) == \A i \in DOMAIN Candidates[name] : d[Candidates[name][i]] # NoFile

\* unique_output_path: the first candidate that does not exist.  When all of them
\* exist it is the first one again, which will be overwritten.
IsOutputPath(d, name, path) ==
    \/ Taken(d, name) /\ path = Candidates[name][1]
    \/ \E i \in DOMAIN Candidates[name] :
          /\ path = Candidates[name][i]
          /\ d[path] = NoFile
          /\ \A j \in 1 .. i - 1 : d[Candidates[name][j]] # NoFile

ReceiveInit ==
    /\ listening \in BOOLEAN
    /\ receiving = NothingReceived
    /\ disk = [p \in Paths |-> NoFile]
    /\ reported = [p \in Paths |-> NoFile]
    /\ torn = {}

\* A start notify; a file that is still being received is given up for it.
BeginFile(o) ==
    /\ listening
    /\ \E left \in Discards, path \in Paths :
          /\ IsOutputPath(left.disk, o.name, path)
          /\ receiving' = [active |-> TRUE, id |-> o.id, whole |-> o.whole, next |-> 0,
                           path |-> path, got |-> <<>>]
          /\ disk' = [left.disk EXCEPT ![path] = <<>>]
          /\ reported' = [reported EXCEPT ![path] = NoFile]
          /\ torn' = left.torn \ {path}
    /\ UNCHANGED listening

Expects(c) ==
    /\ receiving.active
    /\ receiving.id = c.id
    /\ receiving.next = c.index
    /\ Len(receiving.got) + Len(c.bytes) <= Len(receiving.whole)

WriteChunk(c) ==
    /\ listening
    /\ Expects(c)
    /\ receiving' = [receiving EXCEPT !.next = @ + 1, !.got = @ \o c.bytes]
    /\ disk' = [disk EXCEPT ![receiving.path] = receiving.got \o c.bytes]
    /\ UNCHANGED <<listening, reported, torn>>

\* Mutant of AfterFinish: the state is left as it was.
StillActive == receiving

\* The state once the file is done; only `active` is reset.
AfterFinish == [receiving EXCEPT !.active = FALSE]

\* Size and CRC-32 are those announced.
Validated(id) == receiving.active /\ receiving.id = id /\ receiving.got = receiving.whole

\* A complete notify.  The stream is closed first and what close() returns is not
\* looked at, so any tail of the content may not have reached the disk.
FinishFile(id) ==
    /\ listening
    /\ Validated(id)
    /\ receiving' = AfterFinish
    /\ reported' = [reported EXCEPT ![receiving.path] = receiving.whole]
    /\ \/ UNCHANGED <<disk, torn>>
       \/ /\ \E n \in 0 .. Len(receiving.got) - 1 :
                disk' = [disk EXCEPT ![receiving.path] = SubSeq(receiving.got, 1, n)]
          /\ torn' = torn \cup {receiving.path}
    /\ UNCHANGED listening

\* Every way the command ends: enough received, time is up, a bad packet or
\* notify, a failed write, a lost connection.  The destructor of ReceiveFileState
\* discards what is not complete.
EndListen ==
    /\ listening
    /\ listening' = FALSE
    /\ receiving' = NothingReceived
    /\ \E left \in Discards : disk' = left.disk /\ torn' = left.torn
    /\ UNCHANGED reported

\* The process is killed.
KillListener ==
    /\ listening
    /\ listening' = FALSE
    /\ receiving' = NothingReceived
    /\ torn' = IF receiving.active THEN torn \cup {receiving.path} ELSE torn
    /\ UNCHANGED <<disk, reported>>

ReceiveNext ==
    \/ \E o \in Offers : BeginFile(o) \/ FinishFile(o.id)
    \/ \E c \in Chunks : WriteChunk(c)
    \/ EndListen
    \/ KillListener

ReceiveSpec == ReceiveInit /\ [][ReceiveNext]_receiveVars

-----------------------------------------------------------------------------
ReceiveTypeOK ==
    /\ listening \in BOOLEAN
    /\ receiving \in [active : BOOLEAN, id : Nat, whole : Seq(Data), next : Nat,
                      path : Paths \cup {NoPath}, got : Seq(Data)]
    /\ disk \in [Paths -> Seq(Data) \cup {NoFile}]
    /\ reported \in [Paths -> Seq(Data) \cup {NoFile}]
    /\ torn \in SUBSET Paths

\* What the directory holds can be trusted: a file is the one being received, or it
\* was reported as received and is what its sender announced, or a kill, or a close or
\* a removal that failed, left it behind.  A start that gives up another file, a bad
\* chunk, a failed validation and every end of the command leave no other partial file.
KeptFilesAreWhole ==
    \A p \in Paths :
        /\ disk[p] # NoFile => \/ receiving.active /\ receiving.path = p
                               \/ p \in torn
                               \/ disk[p] = reported[p]
        /\ reported[p] # NoFile => p \in torn \/ disk[p] = reported[p]

\* A file once reported as received is not changed or removed, whatever is received
\* after it, unless all the paths for some name are taken.
ReceivedFilesStay ==
    [][\A p \in Paths : reported[p] # NoFile /\ disk'[p] # disk[p] =>
          \E n \in Names : p = Candidates[n][1] /\ Taken(disk, n)]_receiveVars
=============================================================================
