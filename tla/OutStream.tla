----------------------------- MODULE OutStream -----------------------------
(***************************************************************************)
(* The stream that LLVM's object writers write to: raw_ostream's buffer in *)
(* front of either ObjfileStream (MCGen::emitMC: a vector in memory that   *)
(* the in-memory loader reads as soon as the passes have run) or           *)
(* raw_fd_ostream (MCGen::emitFile: a file).  The vector is read without a *)
(* flush, so nothing may be left in a buffer in front of it; the file is   *)
(* written through a buffer, patched by seeking in it, and the system may  *)
(* refuse bytes at any moment.  Implements states that both are ByteFiles. *)
(*                                                                         *)
(* The object writer is external: it writes, asks for the length and       *)
(* patches what it has written (ELFObjectWriter.cpp:1134-1148).            *)
(***************************************************************************)
EXTENDS Bytes

CONSTANTS
  Chunks,     \* the rows of bytes that one write or one pwrite carries
  Blocks,     \* what preferred_buffer_size may return
  MaxBytes    \* bound on what is written to one stream

ASSUME ChunksAssumption == Chunks \subseteq Seq(Nat) \ {<<>>}
ASSUME BlocksAssumption == Blocks \subseteq Nat
ASSUME MaxBytesAssumption == MaxBytes \in Nat

VARIABLES
  kind,       \* the class of the stream: "ObjfileStream" or "raw_fd_ostream"
  block,      \* the file's preferred block size, 0 for no buffer
  phase,      \* "start", "open", "complete", "reported" or "fatal"
  strm,       \* the stream object and the file behind it
  told        \* what tell() last returned

vars == <<kind, block, phase, strm, told>>

Memory == kind = "ObjfileStream"

(* The fields: BufferMode, the size of the buffer (OutBufEnd - OutBufStart),
   the bytes in it, the vector or file, pos, whether EC is set, and of the
   system the descriptor's offset and the bytes it still takes in this call. *)
Stream(mode) ==
  [mode |-> mode, size |-> 0, buf |-> <<>>, data |-> <<>>,
   pos |-> 0, err |-> FALSE, off |-> 0, takes |-> 0]

(* The constructors: ObjfileStream asks for no buffer. *)
DefaultMode == "InternalBuffer"
BufferMode == IF Memory THEN "Unbuffered" ELSE "InternalBuffer"

-----------------------------------------------------------------------------
(* raw_ostream and the two classes. *)

CurrentPos(s) == IF Memory THEN Len(s.data) ELSE s.pos
Tell(s) == CurrentPos(s) + Len(s.buf)

(* ObjfileStream::write_impl grows the vector; raw_fd_ostream::write_impl
   writes until the system has taken all or refuses more, and counts all. *)
WriteToFile(s, bs) ==
  LET n == IF Len(bs) <= s.takes THEN Len(bs) ELSE s.takes IN
  [s EXCEPT !.data = Patched(@, s.off, SubSeq(bs, 1, n)),
            !.off = @ + n, !.takes = @ - n,
            !.pos = @ + Len(bs),
            !.err = @ \/ n < Len(bs)]
WriteImpl(s, bs) ==
  IF Memory THEN [s EXCEPT !.data = @ \o bs] ELSE WriteToFile(s, bs)

Flush(s) == IF s.buf = <<>> THEN s ELSE WriteImpl([s EXCEPT !.buf = <<>>], s.buf)

SetBuffered(s) ==
  IF block = 0 THEN [s EXCEPT !.mode = "Unbuffered"] ELSE [s EXCEPT !.size = block]

(* write with an empty buffer: whole buffers go past it, the rest into it *)
KeepAll(s, bs) == [s EXCEPT !.buf = bs]
WriteAround(s, bs) ==
  LET direct == Len(bs) - (Len(bs) % s.size) IN
  IF Len(bs) <= s.size THEN [s EXCEPT !.buf = bs]
  ELSE [WriteImpl(s, SubSeq(bs, 1, direct)) EXCEPT !.buf = SubSeq(bs, direct + 1, Len(bs))]

(* raw_ostream::write; the buffer is made when it is first needed *)
WriteBuffered(s, bs) ==
  LET room == s.size - Len(s.buf) IN
  IF Len(bs) <= room THEN [s EXCEPT !.buf = @ \o bs]
  ELSE IF s.buf = <<>> THEN WriteAround(s, bs)
  ELSE WriteAround(Flush([s EXCEPT !.buf = @ \o SubSeq(bs, 1, room)]), SubSeq(bs, room + 1, Len(bs)))
Write(s, bs) ==
  LET t == IF s.mode = "InternalBuffer" /\ s.size = 0 THEN SetBuffered(s) ELSE s
  IN IF t.mode = "Unbuffered" THEN WriteImpl(t, bs) ELSE WriteBuffered(t, bs)

(* seek, and the two pwrite_impls *)
SeekUnflushed(s, o) == [s EXCEPT !.pos = o, !.off = o]
Seek(s, o) == [Flush(s) EXCEPT !.pos = o, !.off = o]
PatchFile(s, bs, o) == Seek(Write(Seek(s, o), bs), Tell(s))
PWriteImpl(s, bs, o) ==
  IF Memory THEN [s EXCEPT !.data = Patched(@, o, bs)] ELSE PatchFile(s, bs, o)

-----------------------------------------------------------------------------
Init ==
  /\ kind \in {"ObjfileStream", "raw_fd_ostream"}
  /\ block \in Blocks
  /\ phase = "start"
  /\ strm = Stream(BufferMode)
  /\ told = 0

(* emitMC and emitFile up to pass.run: the file may not open, and the target
   may have no pass that emits what is asked for, which ends the process or,
   for a file, only prints a message. *)
Open ==
  /\ phase = "start"
  /\ \/ phase' = "open"
     \/ phase' = IF Memory THEN "fatal" ELSE "reported"
  /\ UNCHANGED <<kind, block, strm, told>>

(* The object writer's calls; n is what the system takes during the call. *)
Given(n) == [strm EXCEPT !.takes = n]
Settled(s) == [s EXCEPT !.takes = 0]

EmitBytes ==
  /\ phase = "open"
  /\ \E bs \in Chunks, n \in 0..MaxBytes :
       /\ Tell(strm) + Len(bs) <= MaxBytes
       /\ strm' = Settled(Write(Given(n), bs))
  /\ UNCHANGED <<kind, block, phase, told>>

PatchBytes ==
  /\ phase = "open"
  /\ \E bs \in Chunks, o \in 0..MaxBytes, n \in 0..MaxBytes :
       /\ o + Len(bs) <= Tell(strm)
       /\ strm' = Settled(PWriteImpl(Given(n), bs, o))
  /\ UNCHANGED <<kind, block, phase, told>>

AskLength ==
  /\ phase = "open"
  /\ told' = Tell(strm)
  /\ UNCHANGED <<kind, block, phase, strm>>

(* ObjectFile::ObjectFile reads the vector.  It never flushes the stream. *)
Link ==
  /\ phase = "open" /\ Memory
  /\ phase' = "complete"
  /\ UNCHANGED <<kind, block, strm, told>>

(* emitFile's flush and the destructor, which closes the file and ends the
   process if an error was seen since the file was opened *)
Fatal(s) == s.err
Close ==
  /\ phase = "open" /\ ~Memory
  /\ \E n \in 0..MaxBytes, fails \in BOOLEAN :
       /\ strm' = [Settled(Flush(Given(n))) EXCEPT !.err = @ \/ fails]
       /\ phase' = IF Fatal(strm') THEN "fatal" ELSE "complete"
  /\ UNCHANGED <<kind, block, told>>

Next == Open \/ EmitBytes \/ PatchBytes \/ AskLength \/ Link \/ Close
Spec == Init /\ [][Next]_vars

-----------------------------------------------------------------------------
StreamType ==
  [mode: {"Unbuffered", "InternalBuffer"}, size: {0, block}, buf: Seq(Nat),
   data: Seq(Nat), pos: Nat, err: BOOLEAN, off: Nat, takes: Nat]

(* The type invariant of the stream, whose buffer never overflows. *)
TypeOK ==
  /\ kind \in {"ObjfileStream", "raw_fd_ostream"}
  /\ block \in Blocks
  /\ phase \in {"start", "open", "complete", "reported", "fatal"}
  /\ strm \in StreamType
  /\ Len(strm.buf) <= strm.size
  /\ told \in Nat

(***************************************************************************)
(* The stream is a ByteFile: writes, lengths and patches mean what the     *)
(* object writer takes them to mean although a buffer is in between, and   *)
(* the linker, or whoever opens the file, reads every byte of it in place  *)
(* unless the failure has been told.                                       *)
(***************************************************************************)
Failed == strm.err \/ phase \in {"reported", "fatal"}
Content ==
  IF phase = "complete" THEN strm.data ELSE IF Failed THEN <<>> ELSE strm.data \o strm.buf
Status == IF phase = "complete" THEN "complete" ELSE IF Failed THEN "failed" ELSE "open"
Abstract == INSTANCE ByteFile WITH
  content <- Content, status <- Status, told <- IF Failed THEN 0 ELSE told
Implements == Abstract!BFSpec
=============================================================================
