------------------------------ MODULE ByteFile ------------------------------
(***************************************************************************)
(* What an object writer expects of the stream it writes to: a row of      *)
(* bytes that grows at the end, tells its length, can be patched where it  *)
(* already has bytes, and is read as it is when it is complete -- or else  *)
(* fails as a whole, and then nobody reads it.                             *)
(***************************************************************************)
EXTENDS Bytes

CONSTANTS
  Chunks,     \* the rows of bytes that one write or one patch carries
  MaxBytes    \* bound on the length of a file

VARIABLES
  content,    \* the bytes
  status,     \* "open", "complete" or "failed"
  told        \* the length as last told

bfvars == <<content, status, told>>

BFInit == content = <<>> /\ status = "open" /\ told = 0

AppendBytes(bs) ==
  /\ content' = content \o bs
  /\ UNCHANGED <<status, told>>

Patch(bs, o) ==
  /\ o + Len(bs) <= Len(content)
  /\ content' = Patched(content, o, bs)
  /\ UNCHANGED <<status, told>>

TellLength ==
  /\ told' = Len(content)
  /\ UNCHANGED <<content, status>>

Complete ==
  /\ status' = "complete"
  /\ UNCHANGED <<content, told>>

(* Nothing that is known of a failed file is anything to rely on. *)
Fail ==
  /\ status' = "failed"
  /\ content' = <<>>
  /\ told' = 0

BFNext ==
  /\ status = "open"
  /\ \/ \E bs \in Chunks : AppendBytes(bs) \/ \E o \in 0..MaxBytes : Patch(bs, o)
     \/ TellLength
     \/ Complete
     \/ Fail

BFSpec == BFInit /\ [][BFNext]_bfvars
=============================================================================
