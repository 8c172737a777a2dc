--------------------------- MODULE ExecStreamProofs ---------------------------
(***************************************************************************)
(* Theorems about ExecStream, for any files and any limits: the types, that*)
(* a dropped connection is noticed, the bound on what is kept, that no     *)
(* file is lost without a reason, and that nobody waits for ever.          *)
(***************************************************************************)
EXTENDS ExecStream, TLAPS

USE ExecAssumption

(***************************************************************************)
(* Types                                                                   *)
(***************************************************************************)
LEMMA TypeInit == Init => TypeOK
<1> SUFFICES ASSUME Init PROVE TypeOK OBVIOUS
<1>1. pod \in Pod
  <2>1. PICK there \in SUBSET Files :
          pod = [there |-> there, left |-> there, cur |-> None, sent |-> 0, stage |-> "files"]
    BY DEF Init
  <2>2. 0 \in 0..MaxSize OBVIOUS
  <2> QED BY <2>1, <2>2 DEF Pod
<1>2. {expired, conn, execErr, taken, cut, early} \subseteq BOOLEAN BY DEF Init
<1>3. 0 \in 0..MaxSize /\ total \in Nat BY DEF Init
<1>4. out \in [Files -> (0..MaxSize) \cup {None}] BY DEF Init
<1>5. (reader = "write" <=> held # None) /\ (fn = "body" <=> file # None)
      /\ (reader = "dial" \/ kind = "capture" => fn = "idle")
  BY DEF Init
<1>6. /\ kind \in {"stream", "capture"} /\ size \in [Files -> 0..MaxSize]
      /\ reader \in {"dial", "read", "write", "done"} /\ pipe \in {"open", "eof", "error"}
      /\ fn \in {"idle", "header", "body", "return", "close", "done"}
      /\ held \in Frame \cup {None} /\ file \in Files \cup {None}
      /\ result \in {None, "ok", "error"}
  BY DEF Init
<1>7. body \in 0..MaxSize BY <1>3 DEF Init
<1> QED BY <1>1, <1>2, <1>3, <1>4, <1>5, <1>6, <1>7 DEF TypeOK

\* The pod stays a pod, whatever it sends.
LEMMA SendsType ==
  ASSUME TypeOK, NEW frame \in Frame, Sends(frame)
  PROVE  pod' \in Pod
<1>1. pod \in Pod /\ size \in [Files -> 0..MaxSize] BY DEF TypeOK
<1>2. CASE \E f \in pod.left : pod' = Sent(f, 0, pod.left \ {f})
  <2>1. PICK f \in pod.left : pod' = Sent(f, 0, pod.left \ {f}) BY <1>2
  <2>2. f \in Files /\ pod.left \ {f} \in SUBSET Files BY <1>1, <2>1 DEF Pod
  <2>3. 0 \in 0..MaxSize OBVIOUS
  <2> QED BY <1>1, <2>1, <2>2, <2>3 DEF Sent, Pod
<1>3. CASE pod.cur # None /\ pod' = Sent(pod.cur, pod.sent + 1, pod.left)
                          /\ frame = [file |-> pod.cur, piece |-> pod.sent + 1]
  <2>1. pod.sent + 1 \in 0..MaxSize BY <1>3 DEF Frame
  <2> QED BY <1>1, <1>3, <2>1 DEF Sent, Pod
<1>4. CASE \E stage \in {"trailer", "status"} : pod' = [pod EXCEPT !.stage = stage]
  BY <1>1, <1>4 DEF Pod
<1> QED BY <1>2, <1>3, <1>4 DEF Sends

LEMMA LeastType == \A m, n \in Nat : Least(m, n) \in Nat /\ Least(m, n) <= m /\ Least(m, n) <= n
BY DEF Least

\* What keeping a body does to the types.
LEMMA KeepsType ==
  ASSUME TypeOK, NEW f \in Files, NEW n \in 0..MaxSize, Keeps(f, n)
  PROVE  /\ out' \in [Files -> (0..MaxSize) \cup {None}] /\ total' \in Nat
         /\ file' = None /\ body' \in 0..MaxSize /\ fn' \in {"return", "header"}
         /\ taken' = taken /\ result' = result
<1>1. out' \in [Files -> (0..MaxSize) \cup {None}] BY DEF Keeps, TypeOK
<1>2. total' \in Nat BY DEF Keeps, TypeOK
<1> QED BY <1>1, <1>2 DEF Keeps

LEMMA TypeStep == TypeOK /\ [Next]_vars => TypeOK'
<1> SUFFICES ASSUME TypeOK, [Next]_vars PROVE TypeOK' OBVIOUS
<1>1. CASE Dial
  <2>1. conn' \in BOOLEAN /\ UNCHANGED <<expired, execErr, taken, cut, early>> BY <1>1 DEF Dial
  <2>2. {expired, conn, execErr, taken, cut, early}' \subseteq BOOLEAN BY <2>1 DEF TypeOK
  <2>3. fn = "idle" /\ file = None /\ fn' \in {"header", "idle"}
        /\ (kind = "capture" => fn' = "idle")
    BY <1>1 DEF Dial, TypeOK
  <2> QED BY <1>1, <2>2, <2>3 DEF Dial, TypeOK
<1>2. CASE DialFails BY <1>2 DEF DialFails, TypeOK
<1>3. CASE Expire BY <1>3 DEF Expire, TypeOK, pump, taker
<1>4. CASE ReadFrame
  <2>1. PICK frame \in Frame : Sends(frame) /\ held' = frame BY <1>4 DEF ReadFrame
  <2>2. frame # None OBVIOUS
  <2> QED BY <1>4, <2>1, <2>2, SendsType DEF ReadFrame, TypeOK, taker
<1>5. CASE ReadStatus
  <2>1. pod' \in Pod BY <1>5 DEF ReadStatus, TypeOK, Pod
  <2> QED BY <1>5, <2>1 DEF ReadStatus, TypeOK, pump, taker
<1>6. CASE CaptureFrame
  <2>1. pod' \in Pod BY <1>6, SendsType DEF CaptureFrame
  <2>2. total' \in Nat BY <1>6 DEF CaptureFrame, TypeOK
  <2>3. CASE CaptureEnds("error") BY <1>6, <2>1, <2>2, <2>3 DEF CaptureFrame, CaptureEnds, TypeOK
  <2>4. CASE UNCHANGED <<kind, size, expired, conn, execErr, pump, taken, fn, file, body, out, result>>
    BY <1>6, <2>1, <2>2, <2>4 DEF CaptureFrame, TypeOK, pump
  <2> QED BY <1>6, <2>3, <2>4 DEF CaptureFrame
<1>7. CASE CaptureClosed BY <1>7 DEF CaptureClosed, CaptureEnds, TypeOK
<1>8. CASE ReadEnds BY <1>8 DEF ReadEnds, TypeOK, link, taker
<1>9. CASE WriteFails BY <1>9 DEF WriteFails, TypeOK, link, taker
<1>10. CASE NextHeader
  <2>1. CASE PipeEnded /\ fn' = "return" /\ UNCHANGED <<pump, taken, file, body, out, total, result>>
    BY <1>10, <2>1 DEF NextHeader, TypeOK, link, pump
  <2>2. ASSUME NEW frame \in Frame, Takes(frame), frame.file # None, Finds(frame.file)
        PROVE  TypeOK'
    <3>1. frame.file \in Files BY <2>2 DEF Frame
    <3>2. CASE size[frame.file] = 0
      <4>1. Keeps(frame.file, 0) BY <2>2, <3>2 DEF Finds
      <4> QED BY <1>10, <2>2, <3>1, <4>1, KeepsType DEF NextHeader, Takes, TypeOK, link
    <3>3. CASE size[frame.file] # 0
      BY <1>10, <2>2, <3>1, <3>3 DEF NextHeader, Finds, Takes, TypeOK, link
    <3> QED BY <3>2, <3>3
  <2>3. ASSUME NEW frame \in Frame, Takes(frame), UNCHANGED taker PROVE TypeOK'
    BY <1>10, <2>3 DEF NextHeader, Takes, TypeOK, link, taker
  <2>4. ASSUME NEW frame \in Frame, Takes(frame), fn' = "return",
               UNCHANGED <<taken, file, body, out, total, result>>
        PROVE  TypeOK'
    BY <1>10, <2>4 DEF NextHeader, Takes, TypeOK, link
  <2> QED BY <1>10, <2>1, <2>2, <2>3, <2>4 DEF NextHeader
<1>11. CASE ReadBody
  <2>0. file \in Files BY <1>11 DEF ReadBody, TypeOK
  <2>1. CASE PipeEnded /\ fn' = "header" /\ file' = None /\ body' = 0
             /\ UNCHANGED <<pump, taken, out, total, result>>
    BY <1>11, <2>1 DEF ReadBody, TypeOK, link, pump
  <2>2. ASSUME NEW frame \in Frame, Takes(frame), Keeps(file, frame.piece) PROVE TypeOK'
    <3>1. frame.piece \in 0..MaxSize BY DEF Frame
    <3> QED BY <1>11, <2>0, <2>2, <3>1, KeepsType DEF ReadBody, Takes, TypeOK, link
  <2>3. ASSUME NEW frame \in Frame, Takes(frame), body' = frame.piece,
               UNCHANGED <<taken, fn, file, out, total, result>>
        PROVE  TypeOK'
    BY <1>11, <2>3 DEF ReadBody, Takes, TypeOK, link, Frame
  <2> QED BY <1>11, <2>1, <2>2, <2>3 DEF ReadBody
<1>12. CASE ClosePipe BY <1>12 DEF ClosePipe, TypeOK, link, pump
<1>13. CASE Return BY <1>13 DEF Return, TypeOK, pump
<1>14. CASE UNCHANGED vars BY <1>14 DEF vars, link, pump, taker, TypeOK
<1> QED BY <1>1, <1>2, <1>3, <1>4, <1>5, <1>6, <1>7, <1>8, <1>9, <1>10, <1>11, <1>12, <1>13,
           <1>14 DEF Next, Reads, Closes, Fn

\* Every variable has its type, for any files and limits.
THEOREM TypeCorrect == Spec => []TypeOK
<1> QED BY TypeInit, TypeStep, PTL DEF Spec
(***************************************************************************)
(* A dropped connection is noticed                                         *)
(***************************************************************************)
\* What was captured is not touched again, and the pod has nothing left to say.
WholeInv ==
  /\ DropsDetected
  /\ kind = "capture" /\ result # None => reader = "done"

LEMMA WholeInit == Init => WholeInv
BY DEF Init, WholeInv, DropsDetected

\* Only whole bodies are kept.
LEMMA KeepsWhole ==
  ASSUME TypeOK, DropsDetected, NEW f \in Files, Keeps(f, Least(size[f], MaxFile)),
         kind # "capture", UNCHANGED <<kind, size>>
  PROVE  DropsDetected'
<1>1. \A g \in Files : out'[g] = IF g = f THEN Least(size[f], MaxFile) ELSE out[g]
  BY DEF Keeps, TypeOK
<1> QED BY <1>1 DEF DropsDetected

LEMMA WholeStep == TypeOK /\ WholeInv /\ [Next]_vars => WholeInv'
<1> SUFFICES ASSUME TypeOK, WholeInv, [Next]_vars PROVE WholeInv' OBVIOUS
<1>1. CASE Dial BY <1>1 DEF Dial, WholeInv, DropsDetected
<1>2. CASE DialFails BY <1>2 DEF DialFails, WholeInv, DropsDetected
<1>3. CASE Expire BY <1>3 DEF Expire, WholeInv, DropsDetected, pump, taker
<1>4. CASE ReadFrame BY <1>4 DEF ReadFrame, WholeInv, DropsDetected, taker
<1>5. CASE ReadStatus
  <2>1. UNCHANGED <<kind, size, reader, result, out>> BY <1>5 DEF ReadStatus, pump, taker
  <2>2. ~(kind = "capture" /\ result = "ok")
    BY <1>5, ExecAssumption DEF ReadStatus, WholeInv
  <2> QED BY <2>1, <2>2 DEF WholeInv, DropsDetected
<1>6. CASE CaptureFrame
  <2>1. UNCHANGED <<kind, size, out>> /\ result' \in {result, "error"}
    BY <1>6 DEF CaptureFrame, CaptureEnds
  <2>2. result = None BY <1>6 DEF CaptureFrame, WholeInv
  <2>3. result' # None => reader' = "done"
    BY <1>6, <2>2 DEF CaptureFrame, CaptureEnds
  <2> QED BY <2>1, <2>2, <2>3 DEF WholeInv, DropsDetected
<1>7. CASE CaptureClosed
  <2>1. /\ UNCHANGED <<kind, size, execErr, out, pod>> /\ reader' = "done"
        /\ result' = "ok" => ~execErr
    BY <1>7 DEF CaptureClosed, CaptureEnds
  <2>2. result' = "ok" => (~early' => pod.stage = "closed")
    BY <1>7 DEF CaptureClosed, CaptureEnds
  <2> QED BY <2>1, <2>2 DEF WholeInv, DropsDetected
<1>8. CASE ReadEnds BY <1>8 DEF ReadEnds, WholeInv, DropsDetected, link, taker
<1>9. CASE WriteFails BY <1>9 DEF WriteFails, WholeInv, DropsDetected, link, taker
<1>10. CASE NextHeader
  <2>1. kind # "capture" /\ UNCHANGED <<kind, size>> BY <1>10 DEF NextHeader, TypeOK
  <2>2. CASE UNCHANGED out BY <2>1, <2>2 DEF WholeInv, DropsDetected
  <2>3. CASE \E f \in Files : size[f] = 0 /\ Keeps(f, 0)
    <3>1. PICK f \in Files : size[f] = 0 /\ Keeps(f, 0) BY <2>3
    <3>2. Least(size[f], MaxFile) = 0 BY <3>1 DEF Least
    <3> QED BY <2>1, <3>1, <3>2, KeepsWhole DEF WholeInv
  <2> QED BY <1>10, <2>2, <2>3 DEF NextHeader, Finds, Frame, taker
<1>11. CASE ReadBody
  <2>1. kind # "capture" /\ UNCHANGED <<kind, size>> BY <1>11 DEF ReadBody, TypeOK
  <2>2. file \in Files BY <1>11 DEF ReadBody, TypeOK
  <2>3. CASE UNCHANGED out BY <2>1, <2>3 DEF WholeInv, DropsDetected
  <2>4. CASE Keeps(file, Least(size[file], MaxFile))
    BY <2>1, <2>2, <2>4, KeepsWhole DEF WholeInv
  <2> QED BY <1>11, <2>3, <2>4 DEF ReadBody
<1>12. CASE ClosePipe BY <1>12 DEF ClosePipe, WholeInv, DropsDetected, link, pump
<1>13. CASE Return
  <2>1. kind # "capture" BY <1>13 DEF Return, TypeOK
  <2> QED BY <1>13, <2>1 DEF Return, WholeInv, DropsDetected
<1>14. CASE UNCHANGED vars
  BY <1>14 DEF vars, link, pump, taker, WholeInv, DropsDetected
<1> QED BY <1>1, <1>2, <1>3, <1>4, <1>5, <1>6, <1>7, <1>8, <1>9, <1>10, <1>11, <1>12, <1>13,
           <1>14 DEF Next, Reads, Closes, Fn

\* However a stream ends, a file that lacks a piece below the limit is not handed over;
\* and captured output is accepted only of a command that did not report a failure and
\* only when all of it came, but for a connection that the other side closed in good
\* order before (execInPod, readMany, readNotes).
THEOREM DropsAreDetected == Spec => []DropsDetected
<1>1. WholeInv => DropsDetected BY DEF WholeInv
<1> QED BY <1>1, TypeInit, TypeStep, WholeInit, WholeStep, PTL DEF Spec

(***************************************************************************)
(* The bound on a batch                                                    *)
(***************************************************************************)
\* As long as fn goes on, the batch is not full: the body it keeps next is the
\* one that may fill it.
BoundInv ==
  kind = "stream" =>
    /\ total < MaxBatch + MaxFile
    /\ fn \in {"idle", "header", "body"} => total < MaxBatch

LEMMA BoundInit == Init => BoundInv
BY DEF Init, BoundInv

LEMMA KeepsBounded ==
  ASSUME TypeOK, BoundInv, kind = "stream" => total < MaxBatch, NEW f,
         NEW n \in 0..MaxFile, Keeps(f, n), kind' = kind
  PROVE  BoundInv'
<1>1. total \in Nat /\ total' = total + n BY DEF Keeps, TypeOK
<1>2. fn' = IF total' >= MaxBatch THEN "return" ELSE "header" BY DEF Keeps
<1> QED BY <1>1, <1>2 DEF BoundInv

LEMMA BoundStep == TypeOK /\ BoundInv /\ [Next]_vars => BoundInv'
<1> SUFFICES ASSUME TypeOK, BoundInv, [Next]_vars PROVE BoundInv' OBVIOUS
<1>1. CASE Dial BY <1>1 DEF Dial, BoundInv, TypeOK
<1>2. CASE DialFails BY <1>2 DEF DialFails, BoundInv
<1>3. CASE Expire BY <1>3 DEF Expire, BoundInv, taker
<1>4. CASE Reads BY <1>4 DEF Reads, ReadFrame, ReadStatus, CaptureFrame, CaptureEnds, BoundInv, taker
<1>5. CASE Closes BY <1>5 DEF Closes, CaptureClosed, CaptureEnds, ReadEnds, BoundInv, taker
<1>6. CASE WriteFails BY <1>6 DEF WriteFails, BoundInv, taker
<1>7. CASE NextHeader
  <2>1. kind' = kind /\ (kind = "stream" => total < MaxBatch) BY <1>7 DEF NextHeader, BoundInv
  <2>2. CASE UNCHANGED total BY <2>1, <2>2 DEF BoundInv
  <2>3. CASE \E f \in Files : Keeps(f, 0)
    <3>1. 0 \in 0..MaxFile OBVIOUS
    <3> QED BY <2>1, <2>3, <3>1, KeepsBounded
  <2> QED BY <1>7, <2>2, <2>3 DEF NextHeader, Finds, Frame, taker
<1>8. CASE ReadBody
  <2>1. kind' = kind /\ (kind = "stream" => total < MaxBatch) BY <1>8 DEF ReadBody, BoundInv
  <2>2. file \in Files BY <1>8 DEF ReadBody, TypeOK
  <2>3. CASE UNCHANGED total BY <2>1, <2>3 DEF BoundInv
  <2>4. CASE Keeps(file, Least(size[file], MaxFile))
    <3>1. size[file] \in Nat BY <2>2 DEF TypeOK
    <3>2. Least(size[file], MaxFile) \in 0..MaxFile BY <3>1 DEF Least
    <3> QED BY <2>1, <2>4, <3>2, KeepsBounded
  <2> QED BY <1>8, <2>3, <2>4 DEF ReadBody
<1>9. CASE ClosePipe BY <1>9 DEF ClosePipe, BoundInv
<1>10. CASE Return BY <1>10 DEF Return, BoundInv
<1>11. CASE UNCHANGED vars BY <1>11 DEF vars, taker, BoundInv
<1> QED BY <1>1, <1>2, <1>3, <1>4, <1>5, <1>6, <1>7, <1>8, <1>9, <1>10, <1>11 DEF Next, Fn

\* Less than one file beyond the limit is kept, whatever the pod sends.
THEOREM BatchIsBounded == Spec => []BatchBounded
<1>1. BoundInv => BatchBounded BY DEF BoundInv, BatchBounded
<1> QED BY <1>1, TypeInit, TypeStep, BoundInit, BoundStep, PTL DEF Spec
(***************************************************************************)
(* No file is lost                                                         *)
(***************************************************************************)
Going == fn \in {"idle", "header", "body"}

Head(f) == [file |-> f, piece |-> 0]

\* Every file that is there has yet to be sent, is on its way, or was kept.
Accounted ==
  \A f \in pod.there :
    \/ out[f] # None
    \/ Going /\ (f \in pod.left \/ held = Head(f) \/ file = f)

\* The goroutine and fn are in the same place: the frame on its way is the last
\* the pod sent, and fn is in the body of the file the pod is sending.
InStep ==
  /\ pod.stage # "files" => pod.cur = None /\ pod.left = {}
  /\ reader = "write" =>
       IF held.file = None
       THEN pod.stage # "files"
       ELSE pod.sent = held.piece /\ (held.piece < size[held.file] => pod.cur = held.file)
  /\ fn = "body" =>
       /\ reader \in {"read", "write"}
       /\ body < Least(size[file], MaxFile)
       /\ reader = "read" => pod.cur = file /\ pod.sent = body
       /\ reader = "write" => held.file = file /\ held.piece = body + 1

\* fn gives up only on a pipe that has ended, and the goroutine on an open pipe
\* only at the end of the archive.
EndsInOrder ==
  /\ Going => taken /\ result # "ok"
  /\ fn = "header" /\ reader = "done" => pod.stage # "files"
  /\ fn = "idle" => reader \in {"dial", "done"}

LossInv ==
  kind = "stream" /\ ~cut /\ total < MaxBatch => Accounted /\ InStep /\ EndsInOrder

LEMMA LossInit == Init => LossInv
<1> SUFFICES ASSUME Init PROVE LossInv OBVIOUS
<1>1. \E there \in SUBSET Files :
        pod = [there |-> there, left |-> there, cur |-> None, sent |-> 0, stage |-> "files"]
  BY DEF Init
<1> QED BY <1>1 DEF Init, LossInv, Accounted, InStep, EndsInOrder, Going

\* What the goroutine does with a frame the pod sends.
LEMMA ReadKeepsLossInv ==
  ASSUME TypeOK, LossInv, ReadFrame PROVE LossInv'
<1> SUFFICES ASSUME ~cut, total < MaxBatch PROVE LossInv'
  BY DEF ReadFrame, LossInv, taker
<1>1. PICK frame \in Frame : Sends(frame) /\ held' = frame BY DEF ReadFrame
<1>2. /\ kind = "stream" /\ reader = "read" /\ reader' = "write" /\ held = None
      /\ UNCHANGED <<kind, size, cut, taken, fn, file, body, out, total, result>>
  BY DEF ReadFrame, taker, TypeOK
<1>3. Accounted /\ InStep /\ EndsInOrder BY <1>2 DEF LossInv
<1>4. pod \in Pod /\ size \in [Files -> 0..MaxSize] BY DEF TypeOK
<1>5. CASE \E f \in pod.left :
             /\ pod.cur = None /\ pod' = Sent(f, 0, pod.left \ {f}) /\ frame = Head(f)
  <2>1. PICK f \in pod.left :
          pod.cur = None /\ pod' = Sent(f, 0, pod.left \ {f}) /\ frame = Head(f)
    BY <1>5
  <2>2. /\ pod'.there = pod.there /\ pod'.left = pod.left \ {f} /\ pod'.sent = 0
        /\ pod'.stage = pod.stage /\ pod'.cur = IF 0 = size[f] THEN None ELSE f
    BY <1>4, <2>1 DEF Sent, Pod
  <2>3. pod.stage = "files" /\ fn # "body" /\ f \in Files
    BY <1>2, <1>3, <1>4, <2>1 DEF InStep, TypeOK, Pod
  <2>4. held'.file = f /\ held'.piece = 0 /\ f # None BY <1>1, <2>1, <2>3 DEF Head
  <2>5. Accounted'
    <3> SUFFICES ASSUME NEW g \in pod.there, out[g] = None
                 PROVE  Going /\ (g \in pod'.left \/ held' = Head(g) \/ file = g)
      BY <1>2, <2>2 DEF Accounted, Going
    <3>1. Going /\ (g \in pod.left \/ file = g) 
      <4>1. Head(g) # None BY <1>4 DEF Head, Pod, Frame
      <4> QED BY <1>2, <1>3, <4>1 DEF Accounted
    <3> QED BY <1>1, <2>1, <2>2, <3>1
  <2>6. InStep' BY <1>2, <2>2, <2>3, <2>4, <1>4 DEF InStep
  <2> QED BY <1>2, <1>3, <2>2, <2>5, <2>6 DEF LossInv, EndsInOrder, Going
<1>6. CASE /\ pod.cur # None /\ pod' = Sent(pod.cur, pod.sent + 1, pod.left)
           /\ frame = [file |-> pod.cur, piece |-> pod.sent + 1]
  <2>1. /\ pod'.there = pod.there /\ pod'.left = pod.left /\ pod'.sent = pod.sent + 1
        /\ pod'.stage = pod.stage /\ pod'.cur = IF pod.sent + 1 = size[pod.cur] THEN None ELSE pod.cur
    BY <1>4, <1>6 DEF Sent, Pod
  <2>2. held'.file = pod.cur /\ held'.piece = pod.sent + 1 /\ pod.cur \in Files /\ pod.sent \in Nat
    BY <1>1, <1>4, <1>6 DEF Pod
  <2>3. pod.stage = "files" BY <1>3, <1>6 DEF InStep
  <2>4. Accounted'
    <3>1. \A g \in pod.there : Head(g) # None BY <1>4 DEF Head, Pod, Frame
    <3> QED BY <1>2, <1>3, <2>1, <3>1 DEF Accounted, Going
  <2>5. InStep' BY <1>2, <1>3, <1>4, <2>1, <2>2, <2>3 DEF InStep
  <2> QED BY <1>2, <1>3, <2>1, <2>4, <2>5 DEF LossInv, EndsInOrder, Going
<1>7. CASE /\ frame = [file |-> None, piece |-> 0] /\ pod.cur = None /\ pod.left = {}
           /\ \E stage \in {"trailer", "status"} : pod' = [pod EXCEPT !.stage = stage]
  <2>1. /\ pod'.there = pod.there /\ pod'.left = {} /\ pod'.cur = None /\ pod'.stage # "files"
    BY <1>4, <1>7 DEF Pod
  <2>2. held'.file = None BY <1>1, <1>7
  <2>3. fn # "body" BY <1>2, <1>3, <1>7 DEF InStep, TypeOK
  <2>4. Accounted'
    <3>1. \A g \in pod.there : Head(g) # None BY <1>4 DEF Head, Pod, Frame
    <3> QED BY <1>2, <1>3, <1>7, <2>1, <3>1 DEF Accounted, Going
  <2>5. InStep' BY <1>2, <2>1, <2>2, <2>3 DEF InStep
  <2> QED BY <1>2, <1>3, <2>1, <2>4, <2>5 DEF LossInv, EndsInOrder, Going
<1>8. pod.stage = "trailer" => pod.cur = None /\ pod.left = {} BY <1>3 DEF InStep
<1> QED BY <1>1, <1>5, <1>6, <1>7, <1>8 DEF Sends, Head

\* Keeping the body of the file fn is in, or of one found empty, loses nothing.
LEMMA KeepsLossInv ==
  ASSUME TypeOK, Accounted, InStep, EndsInOrder, NEW f \in Files, NEW n \in 0..MaxSize,
         Keeps(f, n), file \in {f, None}, Going,
         reader = "write", reader' = "read", held.file = f, held' = None,
         UNCHANGED <<kind, size, pod, cut>>
  PROVE  LossInv'
<1> SUFFICES ASSUME total' < MaxBatch PROVE LossInv' BY DEF LossInv
<1>1. /\ out' = [out EXCEPT ![f] = n] /\ file' = None /\ fn' = "header" /\ taken' = taken
      /\ result' = result
  BY DEF Keeps, TypeOK
<1>2. out'[f] # None /\ \A g \in Files : g # f => out'[g] = out[g] BY <1>1 DEF TypeOK
<1>3. Accounted'
  <2> SUFFICES ASSUME NEW g \in pod.there, out'[g] = None PROVE g \in pod.left
    BY <1>1 DEF Accounted, Going
  <2>1. g \in Files /\ g # f BY <1>2 DEF TypeOK, Pod
  <2>2. held # Head(g) /\ file # g BY <2>1 DEF Head
  <2> QED BY <1>2, <2>1, <2>2 DEF Accounted
<1>4. InStep' BY <1>1 DEF InStep
<1>5. EndsInOrder' BY <1>1 DEF EndsInOrder, Going
<1> QED BY <1>3, <1>4, <1>5 DEF LossInv

LEMMA HeaderKeepsLossInv ==
  ASSUME TypeOK, LossInv, NextHeader PROVE LossInv'
<1> SUFFICES ASSUME ~cut, total' < MaxBatch, kind = "stream" PROVE LossInv'
  BY DEF NextHeader, LossInv
<1>1. fn = "header" /\ Going /\ file = None /\ UNCHANGED <<kind, size, pod, cut, conn>>
  BY DEF NextHeader, Going, TypeOK, link
<1>2. total \in Nat /\ total' \in Nat /\ total <= total'
  BY DEF NextHeader, Finds, Keeps, TypeOK, taker
<1>3. Accounted /\ InStep /\ EndsInOrder BY <1>2 DEF LossInv
<1>4. CASE PipeEnded /\ fn' = "return" /\ UNCHANGED <<pump, taken, file, body, out, total, result>>
  <2>1. pod.left = {} /\ held = None BY <1>1, <1>3, <1>4 DEF PipeEnded, EndsInOrder, InStep, TypeOK
  <2>2. \A g \in pod.there : Head(g) # None BY DEF Head, TypeOK, Pod, Frame
  <2>3. \A g \in pod.there : g # None BY DEF TypeOK, Pod
  <2>4. \A g \in pod.there : out[g] # None BY <1>1, <1>3, <2>1, <2>2, <2>3 DEF Accounted
  <2> QED BY <1>1, <1>3, <1>4, <2>4 DEF LossInv, Accounted, InStep, EndsInOrder, Going, pump
<1>5. ASSUME NEW frame \in Frame, Takes(frame), frame.file # None, frame.piece = 0,
             Finds(frame.file)
      PROVE  LossInv'
  <2> DEFINE f == frame.file
  <2>1. f \in Files /\ held = frame /\ reader = "write" /\ reader' = "read" /\ held' = None
    BY <1>5 DEF Takes, Frame
  <2>2. CASE size[f] = 0
    <3>1. Keeps(f, 0) BY <1>5, <2>2 DEF Finds
    <3> QED BY <1>1, <1>3, <2>1, <3>1, KeepsLossInv
  <2>3. CASE size[f] # 0
    <3>1. file' = f /\ body' = 0 /\ fn' = "body" /\ UNCHANGED <<taken, out, total, result>>
      BY <1>5, <2>3 DEF Finds
    <3>2. size[f] \in Nat /\ 0 < Least(size[f], MaxFile) BY <2>1, <2>3 DEF TypeOK, Least
    <3>3. pod.cur = f /\ pod.sent = 0 BY <1>3, <1>5, <2>1, <2>3, <3>2 DEF InStep
    <3>4. InStep' BY <1>1, <1>3, <2>1, <3>1, <3>2, <3>3 DEF InStep
    <3>5. Accounted'
      <4> SUFFICES ASSUME NEW g \in pod.there, out[g] = None PROVE g \in pod.left \/ g = f
        BY <1>1, <3>1 DEF Accounted, Going
      <4>1. g # None BY DEF TypeOK, Pod
      <4>2. held = Head(g) => g = f BY <2>1 DEF Head
      <4> QED BY <1>1, <1>3, <4>1, <4>2 DEF Accounted
    <3> QED BY <1>1, <1>3, <2>1, <3>1, <3>4, <3>5 DEF LossInv, EndsInOrder, Going
  <2> QED BY <2>2, <2>3
<1>6. ASSUME NEW frame \in Frame, Takes(frame), frame.file # None, frame.piece > 0,
             UNCHANGED taker
      PROVE  LossInv'
  <2>1. held = frame /\ reader = "write" /\ reader' = "read" /\ held' = None
        /\ UNCHANGED <<taken, fn, file, body, out, total, result>>
    BY <1>6 DEF Takes, taker
  <2>2. \A g \in pod.there : held # Head(g) BY <1>6, <2>1 DEF Head
  <2>3. Accounted' BY <1>1, <1>3, <2>1, <2>2 DEF Accounted, Going
  <2> QED BY <1>1, <1>3, <2>1, <2>3 DEF LossInv, InStep, EndsInOrder, Going
<1>7. ASSUME NEW frame \in Frame, Takes(frame), frame.file = None, fn' = "return",
             UNCHANGED <<taken, file, body, out, total, result>>
      PROVE  LossInv'
  <2>1. held = frame /\ reader = "write" /\ reader' = "read" /\ held' = None
    BY <1>7 DEF Takes
  <2>2. pod.left = {} BY <1>3, <1>7, <2>1 DEF InStep
  <2>3. \A g \in pod.there : g # None BY DEF TypeOK, Pod
  <2>4. \A g \in pod.there : held # Head(g) BY <1>7, <2>1, <2>3 DEF Head
  <2>5. \A g \in pod.there : out[g] # None BY <1>1, <1>3, <2>2, <2>3, <2>4 DEF Accounted
  <2> QED BY <1>1, <1>3, <1>7, <2>1, <2>5 DEF LossInv, Accounted, InStep, EndsInOrder, Going
<1> QED BY <1>4, <1>5, <1>6, <1>7 DEF NextHeader

LEMMA BodyKeepsLossInv ==
  ASSUME TypeOK, LossInv, ReadBody PROVE LossInv'
<1> SUFFICES ASSUME ~cut, total' < MaxBatch, kind = "stream" PROVE LossInv'
  BY DEF ReadBody, LossInv
<1>1. fn = "body" /\ Going /\ file \in Files /\ UNCHANGED <<kind, size, pod, cut, conn>>
  BY DEF ReadBody, Going, TypeOK, link
<1>2. total \in Nat /\ total' \in Nat /\ total <= total'
  BY DEF ReadBody, Keeps, TypeOK, Frame
<1>3. Accounted /\ InStep /\ EndsInOrder BY <1>2 DEF LossInv
<1>4. ~PipeEnded BY <1>1, <1>3 DEF PipeEnded, InStep
<1>5. PICK frame \in Frame :
        /\ Takes(frame)
        /\ IF frame.piece = Least(size[file], MaxFile)
           THEN Keeps(file, frame.piece)
           ELSE body' = frame.piece /\ UNCHANGED <<taken, fn, file, out, total, result>>
  BY <1>4 DEF ReadBody
<1>6. /\ held = frame /\ reader = "write" /\ reader' = "read" /\ held' = None
      /\ frame.piece \in 0..MaxSize
  BY <1>5 DEF Takes, Frame
<1>7. held.file = file /\ held.piece = body + 1 /\ body \in Nat /\ body < Least(size[file], MaxFile)
  BY <1>1, <1>3, <1>6 DEF InStep, TypeOK
<1>8. CASE frame.piece = Least(size[file], MaxFile)
  BY <1>1, <1>3, <1>5, <1>6, <1>7, <1>8, KeepsLossInv
<1>9. CASE frame.piece # Least(size[file], MaxFile)
  <2>1. body' = frame.piece /\ UNCHANGED <<taken, fn, file, out, total, result>>
    BY <1>5, <1>9
  <2>2. size[file] \in Nat /\ Least(size[file], MaxFile) \in Nat /\ Least(size[file], MaxFile) <= size[file]
    BY <1>1 DEF TypeOK, Least
  <2>3. frame.piece < Least(size[file], MaxFile) BY <1>6, <1>7, <1>9, <2>2
  <2>4. frame.piece < size[file] BY <1>6, <2>2, <2>3
  <2>5. pod.cur = file /\ pod.sent = frame.piece BY <1>1, <1>3, <1>6, <1>7, <2>4 DEF InStep
  <2>6. InStep' BY <1>1, <1>3, <1>6, <2>1, <2>3, <2>5 DEF InStep
  <2>7. \A g \in pod.there : held = Head(g) => g = file BY <1>7 DEF Head
  <2>8. Accounted' BY <1>1, <1>3, <1>6, <2>1, <2>7 DEF Accounted, Going
  <2> QED BY <1>1, <1>3, <1>6, <2>1, <2>6, <2>8 DEF LossInv, EndsInOrder, Going
<1> QED BY <1>8, <1>9

LEMMA LossStep == TypeOK /\ LossInv /\ [Next]_vars => LossInv'
<1> SUFFICES ASSUME TypeOK, LossInv, [Next]_vars PROVE LossInv' OBVIOUS
<1>1. CASE Dial BY <1>1 DEF Dial, LossInv, Accounted, InStep, EndsInOrder, Going, TypeOK
<1>2. CASE DialFails BY <1>2 DEF DialFails, LossInv, Accounted, InStep, EndsInOrder, Going, TypeOK
<1>3. CASE Expire
  BY <1>3 DEF Expire, LossInv, Accounted, InStep, EndsInOrder, Going, pump, taker
<1>4. CASE ReadFrame BY <1>4, ReadKeepsLossInv
<1>5. CASE ReadStatus
  <2>1. /\ pod'.there = pod.there /\ pod'.left = pod.left /\ pod'.cur = pod.cur
        /\ pod'.sent = pod.sent /\ pod'.stage = "closed" /\ pod.stage # "files"
    BY <1>5 DEF ReadStatus, TypeOK, Pod
  <2> QED BY <1>5, <2>1 DEF ReadStatus, LossInv, Accounted, InStep, EndsInOrder, Going, pump, taker
<1>6. CASE CaptureFrame BY <1>6 DEF CaptureFrame, CaptureEnds, LossInv
<1>7. CASE CaptureClosed BY <1>7 DEF CaptureClosed, CaptureEnds, LossInv
<1>8. CASE ReadEnds
  <2>1. /\ UNCHANGED <<kind, size, link, held, taker>> /\ reader = "read" /\ reader' = "done"
        /\ (~cut' => ~cut /\ pod.stage # "files")
    BY <1>8 DEF ReadEnds
  <2> SUFFICES ASSUME ~cut', total < MaxBatch, kind = "stream" PROVE LossInv'
    BY <2>1 DEF LossInv, taker
  <2>2. Accounted /\ InStep /\ EndsInOrder BY <2>1 DEF LossInv
  <2>3. fn # "body" BY <2>1, <2>2 DEF InStep, TypeOK
  <2>4. Accounted' BY <2>1, <2>2 DEF Accounted, Going, link, taker
  <2>5. InStep' BY <2>1, <2>2, <2>3 DEF InStep, link, taker
  <2>6. EndsInOrder' BY <2>1, <2>2 DEF EndsInOrder, Going, link, taker
  <2> QED BY <2>4, <2>5, <2>6 DEF LossInv
<1>9. CASE WriteFails
  <2> SUFFICES ASSUME ~cut, total < MaxBatch, kind = "stream" PROVE LossInv'
    BY <1>9 DEF WriteFails, LossInv, taker
  <2>1. Accounted /\ InStep /\ EndsInOrder BY DEF LossInv
  <2>2. ~Going BY <1>9, <2>1 DEF WriteFails, EndsInOrder
  <2>3. UNCHANGED <<pod, taker, size>> /\ reader' = "done" BY <1>9 DEF WriteFails, link
  <2>4. Accounted' BY <2>1, <2>2, <2>3 DEF Accounted, Going, taker
  <2>5. InStep' BY <2>1, <2>2, <2>3 DEF InStep, Going, taker
  <2>6. EndsInOrder' BY <2>1, <2>2, <2>3 DEF EndsInOrder, Going, taker
  <2> QED BY <2>4, <2>5, <2>6 DEF LossInv
<1>10. CASE NextHeader BY <1>10, HeaderKeepsLossInv
<1>11. CASE ReadBody BY <1>11, BodyKeepsLossInv
<1>12. CASE ClosePipe
  BY <1>12 DEF ClosePipe, LossInv, Accounted, InStep, EndsInOrder, Going, link, pump
<1>13. CASE Return BY <1>13 DEF Return, LossInv, Accounted, InStep, EndsInOrder, Going, pump
<1>14. CASE UNCHANGED vars
  BY <1>14 DEF vars, link, pump, taker, LossInv, Accounted, InStep, EndsInOrder, Going
<1> QED BY <1>1, <1>2, <1>3, <1>4, <1>5, <1>6, <1>7, <1>8, <1>9, <1>10, <1>11, <1>12, <1>13,
           <1>14 DEF Next, Reads, Closes, Fn

\* One file that is missing or too large does not cost the others: an archive that
\* came to its end gives every file there was, unless the batch was full.
THEOREM EveryFileArrives == Spec => []NoFileIsLost
<1>1. LossInv => NoFileIsLost BY DEF LossInv, Accounted, EndsInOrder, NoFileIsLost
<1> QED BY <1>1, TypeInit, TypeStep, LossInit, LossStep, PTL DEF Spec

(***************************************************************************)
(* Nobody waits for ever                                                   *)
(***************************************************************************)
\* Who can take a step that the pod need not help with: the deadline, the goroutine (or
\* execInPod's loop), the tar reader.
DeadlineCanPass == ~expired /\ result = None

ReaderCanGoOn ==
  \/ reader = "dial"
  \/ reader = "read" /\ (expired \/ ~conn)
  \/ reader = "write" /\ (~taken \/ fn \in {"header", "body"})

FnCanGoOn ==
  \/ fn \in {"header", "body"} /\ (reader = "write" \/ PipeEnded)
  \/ fn \in {"return", "close"}

\* Until the call has returned and its goroutine has ended one of them can, whatever the
\* pod does: the two ends of the pipe never wait for each other, nor for a connection that
\* nobody closes.
NobodyWaitsForEver ==
  result = None \/ reader # "done" => DeadlineCanPass \/ ReaderCanGoOn \/ FnCanGoOn

\* A goroutine that has ended has closed its end of the pipe; fn leaves the pipe closed
\* behind it, and the connection.
WaitInv ==
  /\ reader = "dial" => result = None
  /\ kind = "capture" => (reader = "done" <=> result # None) /\ reader # "write"
  /\ kind = "stream" /\ fn = "idle" =>
       reader \in {"dial", "done"} /\ (reader = "done" <=> result # None)
  /\ kind = "stream" /\ fn # "idle" =>
       /\ reader # "dial"
       /\ reader = "done" => pipe # "open"
       /\ fn = "done" <=> result # None
       /\ fn = "done" => ~conn
       /\ fn \in {"close", "done"} => ~taken

LEMMA WaitInit == Init => WaitInv
BY DEF Init, WaitInv

\* fn goes on, and nothing else that the invariant is about.
LEMMA FnKeepsWaitInv ==
  ASSUME TypeOK, WaitInv, kind = "stream", fn \in {"header", "body"},
         fn' \in {"header", "body", "return"},
         reader' # "dial", reader' = "done" => PipeEnded, pipe' = pipe,
         UNCHANGED <<kind, taken, result>>
  PROVE  WaitInv'
BY DEF WaitInv, PipeEnded

LEMMA WaitStep == TypeOK /\ WaitInv /\ [Next]_vars => WaitInv'
<1> SUFFICES ASSUME TypeOK, WaitInv, [Next]_vars PROVE WaitInv' OBVIOUS
<1>1. CASE Dial
  <2>1. kind = "stream" => fn' = "header" BY <1>1 DEF Dial
  <2>2. fn = "idle" /\ result = None /\ pipe' = pipe BY <1>1 DEF Dial, TypeOK, WaitInv
  <2> QED BY <1>1, <2>1, <2>2 DEF Dial, WaitInv, TypeOK
<1>2. CASE DialFails BY <1>2 DEF DialFails, WaitInv, TypeOK
<1>3. CASE Expire BY <1>3 DEF Expire, WaitInv, pump, taker
<1>4. CASE ReadFrame BY <1>4 DEF ReadFrame, WaitInv, TypeOK, taker
<1>5. CASE ReadStatus BY <1>5 DEF ReadStatus, WaitInv, pump, taker
<1>6. CASE CaptureFrame
  <2>1. CASE CaptureEnds("error") BY <1>6, <2>1 DEF CaptureFrame, CaptureEnds, WaitInv, TypeOK
  <2>2. CASE UNCHANGED <<kind, size, expired, conn, execErr, pump, taken, fn, file, body, out, result>>
    BY <1>6, <2>2 DEF CaptureFrame, WaitInv, pump
  <2> QED BY <1>6, <2>1, <2>2 DEF CaptureFrame
<1>7. CASE CaptureClosed BY <1>7 DEF CaptureClosed, CaptureEnds, WaitInv, TypeOK
<1>8. CASE ReadEnds BY <1>8 DEF ReadEnds, WaitInv, TypeOK, link, taker
<1>9. CASE WriteFails BY <1>9 DEF WriteFails, WaitInv, TypeOK, link, taker
<1>10. CASE NextHeader
  <2>1. kind = "stream" /\ fn = "header" /\ kind' = kind BY <1>10 DEF NextHeader, TypeOK
  <2>2. fn' \in {"header", "body", "return"} /\ UNCHANGED <<taken, result>>
    <3>1. \A f \in Files : Finds(f) => fn' \in {"header", "body", "return"} /\ UNCHANGED <<taken, result>>
      BY DEF Finds, Keeps
    <3>2. \A frame \in Frame : frame.file # None => frame.file \in Files BY DEF Frame
    <3> QED BY <1>10, <2>1, <3>1, <3>2 DEF NextHeader, taker
  <2>3. pipe' = pipe /\ reader' # "dial" /\ (reader' = "done" => PipeEnded)
    BY <1>10, <2>1 DEF NextHeader, Takes, pump, PipeEnded
  <2> QED BY <2>1, <2>2, <2>3, FnKeepsWaitInv
<1>11. CASE ReadBody
  <2>1. kind = "stream" /\ fn = "body" /\ kind' = kind BY <1>11 DEF ReadBody, TypeOK
  <2>2. fn' \in {"header", "body", "return"} /\ UNCHANGED <<taken, result>>
    BY <1>11, <2>1 DEF ReadBody, Keeps
  <2>3. pipe' = pipe /\ reader' # "dial" /\ (reader' = "done" => PipeEnded)
    BY <1>11, <2>1 DEF ReadBody, Takes, pump, PipeEnded
  <2> QED BY <2>1, <2>2, <2>3, FnKeepsWaitInv
<1>12. CASE ClosePipe BY <1>12 DEF ClosePipe, WaitInv, TypeOK, link, pump
<1>13. CASE Return BY <1>13 DEF Return, WaitInv, TypeOK, pump
<1>14. CASE UNCHANGED vars BY <1>14 DEF vars, link, pump, taker, WaitInv
<1> QED BY <1>1, <1>2, <1>3, <1>4, <1>5, <1>6, <1>7, <1>8, <1>9, <1>10, <1>11, <1>12, <1>13,
           <1>14 DEF Next, Reads, Closes, Fn

\* A call that has not returned, or whose goroutine runs, is never stuck: what CallReturns
\* and GoroutineEnds need besides fairness.
THEOREM NoMutualWait == Spec => []NobodyWaitsForEver
<1>1. TypeOK /\ WaitInv => NobodyWaitsForEver
  BY DEF TypeOK, WaitInv, NobodyWaitsForEver, DeadlineCanPass, ReaderCanGoOn, FnCanGoOn, PipeEnded
<1> QED BY <1>1, TypeInit, TypeStep, WaitInit, WaitStep, PTL DEF Spec

\* Once the call has returned, its goroutine takes one step more, its last: the connection
\* is closed and nobody reads the pipe.
OneStepMore == [][result # None => reader' \in {reader, "done"}]_vars

THEOREM NoLongTail == Spec => OneStepMore
<1>1. TypeOK /\ WaitInv /\ [Next]_vars => [result # None => reader' \in {reader, "done"}]_vars
  <2> SUFFICES ASSUME TypeOK, WaitInv, Next, result # None PROVE reader' \in {reader, "done"}
    OBVIOUS
  <2>1. reader # "dial" /\ (kind = "capture" => reader = "done") BY DEF WaitInv
  <2>2. kind = "stream" => ~conn \/ reader = "done" BY DEF WaitInv
  <2>3. kind = "stream" => fn \notin {"header", "body"} BY DEF WaitInv
  <2>4. kind \in {"stream", "capture"} BY DEF TypeOK
  <2>5. ~NextHeader /\ ~ReadBody BY <2>3, <2>4 DEF NextHeader, ReadBody, TypeOK
  <2>6. ~ReadFrame /\ ~CaptureFrame BY <2>1, <2>2 DEF ReadFrame, CaptureFrame
  <2>7. ~Dial BY <2>1 DEF Dial
  <2> QED BY <2>5, <2>6, <2>7 DEF Next, Reads, Closes, Fn, DialFails, Expire, ReadStatus,
             CaptureClosed, CaptureEnds, ReadEnds, WriteFails, ClosePipe, Return, pump
<1> QED BY <1>1, TypeInit, TypeStep, WaitInit, WaitStep, PTL DEF Spec, OneStepMore
================================================================================
