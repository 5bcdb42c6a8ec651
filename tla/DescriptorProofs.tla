-------------------------- MODULE DescriptorProofs --------------------------
(***************************************************************************)
(* What the calls that move and drop the owners of a descriptor preserve,  *)
(* for every record: lemmas for the proofs about the modules that use them. *)
(***************************************************************************)
EXTENDS Descriptor, TLAPS

\* The operators return records (newFD's failure path, dialer.go's closes).
LEMMA DescriptorTypes ==
  ASSUME NEW r \in Record, NEW b \in BOOLEAN
  PROVE  /\ OpenRaw(r) \in Record /\ CloseRaw(r) \in Record
         /\ WrapFile(r) \in Record /\ CloseFile(r, b) \in Record
         /\ Unlock(r) \in Record /\ CopyFile(r) \in Record
         /\ CloseCopy(r) \in Record /\ FailedNetFD(r) \in Record
<1>1. ASSUME NEW s \in Record PROVE Unref(s) \in Record
  BY DEF Unref, Record
<1>2. \A f \in Files, c \in Copies :
        /\ [r EXCEPT !.file = f] \in Record /\ [r EXCEPT !.copy = c] \in Record
  BY DEF Record
<1>3. CopyFile(r) \in Record /\ "closed" \in Files /\ "closed" \in Copies
      /\ "closing" \in Files
  BY <1>2 DEF CopyFile, Copies, Files
<1>4. ASSUME NEW s \in Record PROVE CloseCopy(s) \in Record
  <2>1. [s EXCEPT !.copy = "closed"] \in Record
    BY DEF Record, Copies
  <2>2. QED
    BY <1>1, <2>1 DEF CloseCopy
<1>5. FailedNetFD(r) \in Record
  <2>1. CloseCopy(CopyFile(r)) \in Record
    BY <1>3, <1>4
  <2>2. QED
    BY <2>1 DEF FailedNetFD, Record
<1>6. CloseFile(r, b) \in Record
  BY <1>1, <1>2, <1>3 DEF CloseFile
<1>7. Unlock(r) \in Record
  BY <1>1, <1>2, <1>3 DEF Unlock
<1>8. OpenRaw(r) \in Record
  BY DEF OpenRaw, Record, Raws
<1>9. CloseRaw(r) \in Record
  <2>1. [r EXCEPT !.raw = "closed"] \in Record
    BY DEF Record, Raws
  <2>2. ASSUME NEW s \in Record PROVE [s EXCEPT !.closes = s.closes + 1] \in Record
    BY DEF Record
  <2>3. [r EXCEPT !.raw = "closed", !.closes = @ + 1]
          = [[r EXCEPT !.raw = "closed"] EXCEPT !.closes = @ + 1]
    BY DEF Record
  <2>4. QED
    BY <2>1, <2>2, <2>3 DEF CloseRaw
<1>10. WrapFile(r) \in Record
  BY DEF WrapFile, MakeFile, Disarm, Record, Raws, Files
<1>11. QED
  BY <1>3, <1>4, <1>5, <1>6, <1>7, <1>8, <1>9, <1>10

\* However often, and in which order, the owners are closed, the number of
\* fd_close calls stays the one that their states account for.
LEMMA ClosesAccounted ==
  ASSUME NEW r \in Record, Accounted(r), NEW b \in BOOLEAN
  PROVE  /\ Accounted(CloseRaw(r))
         /\ Accounted(CloseFile(r, b))
         /\ Accounted(Unlock(r))
         /\ Accounted(CloseCopy(r))
<1> USE DEF Record, Accounted, Referenced, Unref, Files, Copies, Raws
<1>1. Accounted(CloseRaw(r))
  BY DEF CloseRaw
<1>2. Accounted(CloseFile(r, b))
  BY DEF CloseFile
<1>3. Accounted(Unlock(r))
  BY DEF Unlock
<1>4. Accounted(CloseCopy(r))
  BY DEF CloseCopy
<1>5. QED
  BY <1>1, <1>2, <1>3, <1>4

\* Moving the descriptor on keeps the account, from the owner it is moved from.
LEMMA MovesAccounted ==
  ASSUME NEW r \in Record, Accounted(r)
  PROVE  /\ r = Unopened => Accounted(OpenRaw(r))
         /\ r.raw = "held" => Accounted(WrapFile(r))
         /\ r.file = "open" => Accounted(CopyFile(r)) /\ Accounted(FailedNetFD(r))
<1> USE DEF Record, Accounted, Referenced, Files, Copies, Raws
<1>1. r = Unopened => Accounted(OpenRaw(r))
  BY DEF Unopened, OpenRaw
<1>2. r.raw = "held" => Accounted(WrapFile(r))
  BY DEF WrapFile, MakeFile, Disarm
<1>3. r.file = "open" => Accounted(CopyFile(r))
  BY DEF CopyFile
<1>4. r.file = "open" => Accounted(FailedNetFD(r))
  BY DEF FailedNetFD, CloseCopy, CopyFile, Unref
<1>5. QED
  BY <1>1, <1>2, <1>3, <1>4

\* What each operator does to the owners, field by field.
LEMMA DescriptorFields ==
  ASSUME NEW r \in Record, NEW b \in BOOLEAN
  PROVE  /\ OpenRaw(r).raw = "held" /\ OpenRaw(r).fin = r.fin
         /\ CloseRaw(r).raw # "held" /\ (r.raw # "held" => CloseRaw(r) = r)
         /\ r.raw = "held" => CloseRaw(r).raw = "closed"
         /\ CloseRaw(r).file = r.file /\ CloseRaw(r).copy = r.copy
         /\ CloseRaw(r).fin = r.fin
         /\ WrapFile(r).raw = "moved" /\ WrapFile(r).file = "open"
         /\ WrapFile(r).copy = r.copy /\ WrapFile(r).fin = r.fin
         /\ CloseFile(r, b).file = IF r.file # "open" THEN r.file
                                   ELSE IF b THEN "closing" ELSE "closed"
         /\ CloseFile(r, b).raw = r.raw /\ CloseFile(r, b).copy = r.copy
         /\ CloseFile(r, b).fin = r.fin
         /\ Unlock(r).file = IF r.file = "closing" THEN "closed" ELSE r.file
         /\ Unlock(r).raw = r.raw /\ Unlock(r).copy = r.copy /\ Unlock(r).fin = r.fin
         /\ CopyFile(r).copy = "open" /\ CopyFile(r).raw = r.raw
         /\ CopyFile(r).file = r.file /\ CopyFile(r).fin = r.fin
         /\ CloseCopy(r).copy = IF r.copy = "open" THEN "closed" ELSE r.copy
         /\ CloseCopy(r).raw = r.raw /\ CloseCopy(r).file = r.file
         /\ CloseCopy(r).fin = r.fin
         /\ FailedNetFD(r).copy = "closed" /\ FailedNetFD(r).fin = TRUE
         /\ FailedNetFD(r).raw = r.raw /\ FailedNetFD(r).file = r.file
<1> USE DEF Record
<1>1. ASSUME NEW s \in Record
      PROVE  /\ Unref(s).raw = s.raw /\ Unref(s).file = s.file
             /\ Unref(s).copy = s.copy /\ Unref(s).fin = s.fin
  BY DEF Unref
<1>2. /\ OpenRaw(r).raw = "held" /\ OpenRaw(r).fin = r.fin
      /\ WrapFile(r).raw = "moved" /\ WrapFile(r).file = "open"
      /\ WrapFile(r).copy = r.copy /\ WrapFile(r).fin = r.fin
      /\ CopyFile(r).copy = "open" /\ CopyFile(r).raw = r.raw
      /\ CopyFile(r).file = r.file /\ CopyFile(r).fin = r.fin
  BY DEF OpenRaw, WrapFile, MakeFile, Disarm, CopyFile
<1>3. /\ CloseRaw(r).raw # "held" /\ (r.raw # "held" => CloseRaw(r) = r)
      /\ r.raw = "held" => CloseRaw(r).raw = "closed"
      /\ CloseRaw(r).file = r.file /\ CloseRaw(r).copy = r.copy
      /\ CloseRaw(r).fin = r.fin
  BY DEF CloseRaw
<1>4. ASSUME NEW f \in Files
      PROVE  LET s == [r EXCEPT !.file = f] IN
             /\ Unref(s).raw = r.raw /\ Unref(s).file = f
             /\ Unref(s).copy = r.copy /\ Unref(s).fin = r.fin
  BY <1>1
<1>5. ASSUME NEW s \in Record
      PROVE  /\ CloseCopy(s).copy = IF s.copy = "open" THEN "closed" ELSE s.copy
             /\ CloseCopy(s).raw = s.raw /\ CloseCopy(s).file = s.file
             /\ CloseCopy(s).fin = s.fin
  <2>1. [s EXCEPT !.copy = "closed"] \in Record
    BY DEF Copies
  <2>2. QED
    BY <1>1, <2>1 DEF CloseCopy
<1>6. /\ CloseFile(r, b).file = IF r.file # "open" THEN r.file
                                ELSE IF b THEN "closing" ELSE "closed"
      /\ CloseFile(r, b).raw = r.raw /\ CloseFile(r, b).copy = r.copy
      /\ CloseFile(r, b).fin = r.fin
  BY <1>4 DEF CloseFile, Files
<1>7. /\ Unlock(r).file = IF r.file = "closing" THEN "closed" ELSE r.file
      /\ Unlock(r).raw = r.raw /\ Unlock(r).copy = r.copy /\ Unlock(r).fin = r.fin
  BY <1>4 DEF Unlock, Files
<1>8. /\ FailedNetFD(r).copy = "closed" /\ FailedNetFD(r).fin = TRUE
      /\ FailedNetFD(r).raw = r.raw /\ FailedNetFD(r).file = r.file
  <2> DEFINE s == CopyFile(r)
  <2>1. s \in Record /\ CloseCopy(s) \in Record
    BY DescriptorTypes DEF CopyFile, Copies
  <2>2. CloseCopy(s).copy = "closed" /\ CloseCopy(s).raw = r.raw
        /\ CloseCopy(s).file = r.file
    BY <1>2, <1>5, <2>1
  <2>3. QED
    BY <2>1, <2>2 DEF FailedNetFD
<1>9. QED
  BY <1>2, <1>3, <1>5, <1>6, <1>7, <1>8

\* A Close that nothing holds up closes the file, and only the file.
LEMMA UnlockedClose ==
  ASSUME NEW r \in Record, r.file = "open"
  PROVE  /\ CloseFile(r, FALSE).file = "closed" /\ CloseFile(r, FALSE).raw = r.raw
         /\ CloseFile(r, FALSE).copy = r.copy /\ CloseFile(r, FALSE).fin = r.fin
BY DescriptorFields

\* Closing an owner never takes an fd_close back.
LEMMA ClosesGrow ==
  ASSUME NEW r \in Record, NEW b \in BOOLEAN
  PROVE  /\ CloseRaw(r).closes >= r.closes /\ CloseFile(r, b).closes >= r.closes
         /\ CloseCopy(r).closes >= r.closes
         /\ r.raw = "held" => CloseRaw(r).closes >= 1
<1>1. /\ CloseRaw(r).closes >= r.closes
      /\ r.raw = "held" => CloseRaw(r).closes >= 1
  BY DEF CloseRaw, Record
<1>2. CloseFile(r, b).closes >= r.closes
  BY DEF CloseFile, Unref, Record
<1>3. CloseCopy(r).closes >= r.closes
  BY DEF CloseCopy, Unref, Record
<1>4. QED
  BY <1>1, <1>2, <1>3

\* The file of an accepted number is its only owner; making one moves nothing else.
LEMMA FileMade ==
  /\ AcceptFile \in Record /\ Accounted(AcceptFile)
  /\ AcceptFile.raw = "moved" /\ AcceptFile.file = "open"
  /\ AcceptFile.copy = "none" /\ ~AcceptFile.fin
  /\ \A r \in Record : MakeFile(r) \in Record /\ MakeFile(r).raw = r.raw
<1>1. \A r \in Record : MakeFile(r) \in Record /\ MakeFile(r).raw = r.raw
  BY DEF MakeFile, Record, Files
<1>2. Unopened \in Record /\ Accounted(Unopened) /\ ~Unopened.fin
  BY DEF Unopened, Record, Raws, Files, Copies, Accounted, Referenced
<1>3. OpenRaw(Unopened) \in Record /\ Accounted(OpenRaw(Unopened))
      /\ OpenRaw(Unopened).raw = "held" /\ ~OpenRaw(Unopened).fin
  <2>1. OpenRaw(Unopened) \in Record
    BY <1>2, DescriptorTypes
  <2>2. Accounted(OpenRaw(Unopened))
    BY <1>2, MovesAccounted
  <2>3. OpenRaw(Unopened).raw = "held" /\ ~OpenRaw(Unopened).fin
    BY DEF OpenRaw, Unopened
  <2>4. QED
    BY <2>1, <2>2, <2>3
<1>4. OpenRaw(Unopened).copy = "none"
  BY DEF OpenRaw, Unopened
<1>5. AcceptFile \in Record
  BY <1>3, DescriptorTypes DEF AcceptFile
<1>6. Accounted(AcceptFile)
  BY <1>3, MovesAccounted DEF AcceptFile
<1>7. AcceptFile.raw = "moved" /\ AcceptFile.file = "open"
      /\ AcceptFile.copy = "none" /\ ~AcceptFile.fin
  <2>1. AcceptFile = WrapFile(OpenRaw(Unopened))
    BY DEF AcceptFile
  <2> HIDE DEF AcceptFile
  <2>2. /\ WrapFile(OpenRaw(Unopened)).raw = "moved"
        /\ WrapFile(OpenRaw(Unopened)).file = "open"
        /\ WrapFile(OpenRaw(Unopened)).copy = OpenRaw(Unopened).copy
        /\ WrapFile(OpenRaw(Unopened)).fin = OpenRaw(Unopened).fin
    BY <1>3 DEF WrapFile, MakeFile, Disarm, Record
  <2>3. QED
    BY <1>3, <1>4, <2>1, <2>2
<1>8. QED
  BY <1>1, <1>5, <1>6, <1>7
=============================================================================
