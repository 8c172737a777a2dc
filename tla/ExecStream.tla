------------------------------ MODULE ExecStream ------------------------------
(***************************************************************************)
(* One command executed in a Claw's pod.  "capture" is execInPod: a loop   *)
(* that keeps all output.  "stream" is execStream: a goroutine moves the   *)
(* output from the connection into a pipe, and fn, a tar reader in         *)
(* readMany or readNotes, takes it from there, file by file.               *)
(*                                                                         *)
(* Output comes in frames: a file's header, its pieces, and what ends the  *)
(* archive.  The pod may stop sending at any time and the deadline may     *)
(* pass.  The connection may drop, or be closed by the other side in good  *)
(* order, at any time: normalClose takes a server that is going away for   *)
(* the end of the output, and no call asks whether the status of the       *)
(* command has come.                                                       *)
(***************************************************************************)
EXTENDS Naturals, FiniteSets

CONSTANTS
  Files,      (* the files asked for                                       *)
  None,
  MaxSize,    (* bound: pieces in a file                                   *)
  MaxFile,    (* maxSessionFileBytes or maxNoteBytes, in pieces            *)
  MaxBatch,   (* maxBatchBytes, in pieces                                  *)
  MaxOutput   (* execMaxOutputBytes, in frames                             *)

\* What the pod's command still has to send.  Files not in "there" are missing.
Pod == [there : SUBSET Files, left : SUBSET Files, cur : Files \cup {None}, sent : 0..MaxSize,
        stage : {"files", "trailer", "status", "closed"}]

\* A frame: piece 0 of a file is its header, the trailer belongs to no file.
Frame == [file : Files \cup {None}, piece : 0..MaxSize]

ASSUME ExecAssumption ==
  /\ None \notin Files \cup Frame \cup (0..MaxSize) \cup {"ok", "error"}
  /\ MaxSize \in Nat /\ MaxFile \in Nat \ {0} /\ MaxBatch \in Nat \ {0} /\ MaxOutput \in Nat

VARIABLES
  kind,     (* "stream" or "capture"                                       *)
  size,     (* of each file, as its header says                            *)
  pod,
  expired,  (* ctx is done                                                 *)
  conn,     (* the connection is open                                      *)
  execErr,
  reader,   (* the goroutine, or execInPod's loop                          *)
  held,     (* the frame it is writing to the pipe, or None                *)
  pipe,     (* the write end: open, or what the read end finds: eof, error *)
  taken,    (* the read end is open                                        *)
  fn,       (* where the tar reader is                                     *)
  file,     (* the file it is in, or None                                  *)
  body,     (* pieces of it read                                           *)
  out,      (* pieces kept of each file                                    *)
  total,    (* pieces kept, or frames of output captured                   *)
  result,
  cut,      (* the archive was cut short before its end (ghost)            *)
  early     (* closed in good order before the command's status (ghost)    *)

link  == <<pod, expired, conn, execErr>>
pump  == <<reader, held, pipe>>
taker == <<taken, fn, file, body, out, total, result>>
vars  == <<kind, size, link, pump, taker, cut, early>>

Least(a, b) == IF a < b THEN a ELSE b

(***************************************************************************)
(* The pod: tar sends the files that are there, in some order, and reports *)
(* failure if one is missing.                                              *)
(***************************************************************************)
Sent(f, n, left) ==
  [pod EXCEPT !.left = left, !.sent = n, !.cur = IF n = size[f] THEN None ELSE f]

\* conn.Read returns the next frame of output.
Sends(frame) ==
  \/ \E f \in pod.left :
       /\ pod.cur = None
       /\ pod' = Sent(f, 0, pod.left \ {f})
       /\ frame = [file |-> f, piece |-> 0]
  \/ /\ pod.cur # None
     /\ pod' = Sent(pod.cur, pod.sent + 1, pod.left)
     /\ frame = [file |-> pod.cur, piece |-> pod.sent + 1]
  \/ /\ pod.stage = "files" /\ pod.cur = None /\ pod.left = {}
     /\ pod' = [pod EXCEPT !.stage = "trailer"]
     /\ frame = [file |-> None, piece |-> 0]
  \/ /\ pod.stage = "trailer"
     /\ pod' = [pod EXCEPT !.stage = "status"]
     /\ frame = [file |-> None, piece |-> 0]

Expire ==
  /\ ~expired /\ result = None
  /\ expired' = TRUE
  /\ UNCHANGED <<kind, size, pod, conn, execErr, pump, taker, cut, early>>

\* A status that says Success, or that cannot be read, is no error.
ReadStatus ==
  /\ reader = "read" /\ conn /\ pod.stage = "status"
  /\ pod' = [pod EXCEPT !.stage = "closed"]
  /\ execErr' \in {FALSE, pod.there # Files}
  /\ UNCHANGED <<kind, size, expired, conn, pump, taker, cut, early>>

\* websocket.Dial is refused, or fails.
DialFails ==
  /\ reader = "dial"
  /\ reader' = "done" /\ conn' = FALSE /\ result' = "error"
  /\ UNCHANGED <<kind, size, pod, expired, execErr, held, pipe, taken, fn, file, body, out,
                 total, cut, early>>

Dial ==
  /\ reader = "dial"
  /\ reader' = "read" /\ conn' = TRUE
  /\ fn' = IF kind = "stream" THEN "header" ELSE fn
  /\ UNCHANGED <<kind, size, pod, expired, execErr, held, pipe, taken, file, body, out, total,
                 result, cut, early>>

(***************************************************************************)
(* execInPod.                                                              *)
(***************************************************************************)
\* The loop ends, and the deferred Close closes the connection.
CaptureEnds(res) ==
  /\ reader' = "done" /\ conn' = FALSE /\ result' = res
  /\ UNCHANGED <<kind, size, expired, execErr, held, pipe, taken, fn, file, body, out>>

CaptureFrame ==
  /\ kind = "capture" /\ reader = "read"
  /\ \E frame \in Frame : Sends(frame)
  /\ total' = total + 1
  /\ IF total' > MaxOutput
     THEN CaptureEnds("error")
     ELSE UNCHANGED <<kind, size, expired, conn, execErr, pump, taken, fn, file, body, out, result>>
  /\ UNCHANGED <<cut, early>>

\* Mutation: a connection that drops counts as closed in good order.
CaptureClosedAnyhow ==
  /\ kind = "capture" /\ reader = "read"
  /\ CaptureEnds(IF execErr \/ expired THEN "error" ELSE "ok")
  /\ UNCHANGED <<pod, total, cut, early>>

\* A close in good order makes the output good, whenever it comes, unless the
\* command reported a failure; anything else that ends the loop is an error.
CaptureClosed ==
  /\ kind = "capture" /\ reader = "read"
  /\ \/ /\ ~expired /\ CaptureEnds(IF execErr THEN "error" ELSE "ok")
        /\ early' = (pod.stage # "closed")
     \/ CaptureEnds("error") /\ UNCHANGED early
  /\ UNCHANGED <<pod, total, cut>>

(***************************************************************************)
(* The goroutine of execStream.                                            *)
(***************************************************************************)
\* One frame of output, which the next step writes to the pipe.
ReadFrame ==
  /\ kind = "stream" /\ reader = "read" /\ conn
  /\ \E frame \in Frame : Sends(frame) /\ held' = frame
  /\ reader' = "write"
  /\ UNCHANGED <<kind, size, expired, conn, execErr, pipe, taker, cut, early>>

\* Mutation: when the connection ends the pipe is left open.
ReadEndsOpen ==
  /\ kind = "stream" /\ reader = "read"
  /\ reader' = "done"
  /\ cut' = (cut \/ pod.stage = "files")
  /\ UNCHANGED <<kind, size, link, held, pipe, taker, early>>

\* conn.Read fails: closed in good order, closed by the other side of this call,
\* cut short, or past the deadline.
ReadEnds ==
  /\ kind = "stream" /\ reader = "read"
  /\ pipe' \in {"error", IF execErr \/ expired THEN "error" ELSE "eof"}
  /\ reader' = "done"
  /\ cut' = (cut \/ pod.stage = "files")
  /\ UNCHANGED <<kind, size, link, held, taker, early>>

\* The read end was closed while the goroutine was writing, or before.
WriteFails ==
  /\ reader = "write" /\ ~taken
  /\ reader' = "done" /\ held' = None /\ pipe' = "error"
  /\ UNCHANGED <<kind, size, link, taker, cut, early>>

(***************************************************************************)
(* fn: the tar reader of readMany and readNotes.                           *)
(***************************************************************************)
\* Takes the frame being written, so that the goroutine reads on.
Takes(frame) ==
  /\ reader = "write" /\ held = frame
  /\ reader' = "read" /\ held' = None
  /\ UNCHANGED pipe

\* The pipe was closed and holds no more.
PipeEnded == reader = "done" /\ pipe # "open"

\* Mutation: the batch is never full.
KeepsAll(f, n) ==
  /\ out' = [out EXCEPT ![f] = n]
  /\ total' = total + n
  /\ file' = None /\ body' = 0
  /\ fn' = "header"
  /\ UNCHANGED <<taken, result>>

\* Mutation: fn does not move on from the file it kept.
KeepsFile(f, n) ==
  /\ out' = [out EXCEPT ![f] = n]
  /\ total' = total + n
  /\ file' = f /\ body' = 0
  /\ fn' = IF total' >= MaxBatch THEN "return" ELSE "header"
  /\ UNCHANGED <<taken, result>>

\* A body is kept; the batch is full if that makes it too large.
Keeps(f, n) ==
  /\ out' = [out EXCEPT ![f] = n]
  /\ total' = total + n
  /\ file' = None /\ body' = 0
  /\ fn' = IF total' >= MaxBatch THEN "return" ELSE "header"
  /\ UNCHANGED <<taken, result>>

Finds(f) ==
  IF size[f] = 0
  THEN Keeps(f, 0)
  ELSE /\ file' = f /\ body' = 0 /\ fn' = "body"
       /\ UNCHANGED <<taken, out, total, result>>

\* Mutation: a file that is larger than its limit ends the batch.
NextHeaderOnly ==
  /\ fn = "header"
  /\ \/ \E frame \in Frame :
          /\ Takes(frame)
          /\ IF frame.file # None /\ frame.piece = 0
             THEN Finds(frame.file)
             ELSE fn' = "return" /\ UNCHANGED <<taken, file, body, out, total, result>>
     \/ /\ PipeEnded /\ fn' = "return"
        /\ UNCHANGED <<pump, taken, file, body, out, total, result>>
  /\ UNCHANGED <<kind, size, link, cut, early>>

\* tr.Next: the next header, what is left of a body cut at its limit, or the end.
NextHeader ==
  /\ fn = "header"
  /\ \/ \E frame \in Frame :
          /\ Takes(frame)
          /\ \/ frame.file # None /\ frame.piece = 0 /\ Finds(frame.file)
             \/ frame.file # None /\ frame.piece > 0 /\ UNCHANGED taker
             \/ /\ frame.file = None /\ fn' = "return"
                /\ UNCHANGED <<taken, file, body, out, total, result>>
     \/ /\ PipeEnded /\ fn' = "return"
        /\ UNCHANGED <<pump, taken, file, body, out, total, result>>
  /\ UNCHANGED <<kind, size, link, cut, early>>

\* Mutation: what was read of a body that was cut short is kept.
ReadBodyAnyway ==
  /\ fn = "body"
  /\ \/ \E frame \in Frame :
          /\ Takes(frame)
          /\ IF frame.piece = Least(size[file], MaxFile)
             THEN Keeps(file, frame.piece)
             ELSE body' = frame.piece /\ UNCHANGED <<taken, fn, file, out, total, result>>
     \/ PipeEnded /\ Keeps(file, body) /\ UNCHANGED pump
  /\ UNCHANGED <<kind, size, link, cut, early>>

\* io.ReadAll: a body, up to its limit; one that is cut short is dropped.
ReadBody ==
  /\ fn = "body"
  /\ \/ \E frame \in Frame :
          /\ Takes(frame)
          /\ IF frame.piece = Least(size[file], MaxFile)
             THEN Keeps(file, frame.piece)
             ELSE body' = frame.piece /\ UNCHANGED <<taken, fn, file, out, total, result>>
     \/ /\ PipeEnded
        /\ fn' = "header" /\ file' = None /\ body' = 0
        /\ UNCHANGED <<pump, taken, out, total, result>>
  /\ UNCHANGED <<kind, size, link, cut, early>>

\* Mutation: the read end stays open.
LeavesPipe ==
  /\ fn = "return"
  /\ fn' = "close"
  /\ UNCHANGED <<kind, size, link, pump, taken, file, body, out, total, result, cut, early>>

\* fn has returned nil; execStream closes the read end ...
ClosePipe ==
  /\ fn = "return"
  /\ taken' = FALSE /\ fn' = "close"
  /\ UNCHANGED <<kind, size, link, pump, file, body, out, total, result, cut, early>>

\* ... and, returning, the connection.
Return ==
  /\ fn = "close"
  /\ fn' = "done" /\ conn' = FALSE /\ result' = "ok"
  /\ UNCHANGED <<kind, size, pod, expired, execErr, pump, taken, file, body, out, total, cut, early>>

Init ==
  /\ kind \in {"stream", "capture"}
  /\ size \in [Files -> 0..MaxSize]
  /\ pod \in {[there |-> there, left |-> there, cur |-> None, sent |-> 0, stage |-> "files"] :
                 there \in SUBSET Files}
  /\ expired = FALSE /\ conn = FALSE /\ execErr = FALSE
  /\ reader = "dial" /\ held = None /\ pipe = "open"
  /\ taken = TRUE /\ fn = "idle" /\ file = None /\ body = 0
  /\ out = [f \in Files |-> None]
  /\ total = 0 /\ result = None /\ cut = FALSE /\ early = FALSE

Reads == ReadFrame \/ ReadStatus \/ CaptureFrame

Closes == CaptureClosed \/ ReadEnds

Fn == NextHeader \/ ReadBody \/ ClosePipe \/ Return

Next == Dial \/ DialFails \/ Expire \/ Reads \/ Closes \/ WriteFails \/ Fn

Spec == Init /\ [][Next]_vars

(***************************************************************************)
(* The pod owes nothing, not even another frame.  The deadline of a scan   *)
(* passes (scanTimeout; for the memory pages, the client leaves); a dial   *)
(* past it fails, and so does a read past it or on a closed connection;    *)
(* and goroutines run.                                                     *)
(***************************************************************************)
Fairness ==
  /\ WF_vars(Expire) /\ WF_vars(expired /\ DialFails)
  /\ WF_vars((expired \/ ~conn) /\ Closes)
  /\ WF_vars(WriteFails) /\ WF_vars(Fn)

FairSpec == Spec /\ Fairness

--------------------------------------------------------------------------------
(***************************************************************************)
(* Properties                                                              *)
(***************************************************************************)
\* Every variable has its type, and who is in the middle of a file is in a file.
TypeOK ==
  /\ kind \in {"stream", "capture"} /\ size \in [Files -> 0..MaxSize] /\ pod \in Pod
  /\ {expired, conn, execErr, taken, cut, early} \subseteq BOOLEAN
  /\ reader \in {"dial", "read", "write", "done"}
  /\ held \in Frame \cup {None} /\ (reader = "write" <=> held # None)
  /\ pipe \in {"open", "eof", "error"}
  /\ fn \in {"idle", "header", "body", "return", "close", "done"}
  /\ reader = "dial" \/ kind = "capture" => fn = "idle"
  /\ file \in Files \cup {None} /\ (fn = "body" <=> file # None)
  /\ body \in 0..MaxSize
  /\ out \in [Files -> (0..MaxSize) \cup {None}]
  /\ total \in Nat
  /\ result \in {None, "ok", "error"}

\* A dropped connection or a missed deadline never passes for the end of the output
\* (TestNormalClose, exec_test.go:25-27).  A file whose piece is missing is not handed
\* over, whichever way the stream ended: it is whole, or it is its first MaxFile
\* pieces, which is all that is kept of a longer one and is not marked.  Captured
\* output is accepted only of a command that reported no failure, and only when all
\* of it came, unless the other side closed in good order before that: this the code
\* takes for the end (exec.go:218), and `early` excludes it.
DropsDetected ==
  /\ \A f \in Files : out[f] # None => out[f] = Least(size[f], MaxFile)
  /\ kind = "capture" /\ result = "ok" => ~execErr /\ (~early => pod.stage = "closed")

\* One file that is missing or too large does not cost the others: if the archive
\* came to its end and the batch was not full, it has every file there was.
NoFileIsLost ==
  kind = "stream" /\ result = "ok" /\ ~cut /\ total < MaxBatch =>
    \A f \in pod.there : out[f] # None

\* Whatever the pod sends, less than one file beyond the limit is kept.
BatchBounded == kind = "stream" => total < MaxBatch + MaxFile

\* A call returns although its pod may hang.
CallReturns == <>(result # None)

\* So does its goroutine, also when fn stops before the output does: it is left
\* neither in the pipe nor on the connection.
GoroutineEnds == <>[](reader = "done")
================================================================================
