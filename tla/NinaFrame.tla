----------------------------- MODULE NinaFrame -----------------------------
(***************************************************************************)
(* The framing rules of driver.rs, on the lengths a frame is made of.      *)
(*                                                                         *)
(* A call of the driver is one command exchange:                           *)
(*   [cmd    |-> opcode,                                                   *)
(*    mixed  |-> TRUE: send_cmd_mixed (16-bit lengths), FALSE: send_cmd,   *)
(*    params |-> lengths of the parameters sent,                           *)
(*    recv   |-> which receive function reads the answer,                  *)
(*    out    |-> size of the caller's buffer,                              *)
(*    lens   |-> payload lengths the method takes, value |-> how it reads  *)
(*               the payload (module NinaOps)]                             *)
(* A reply is [cmd |-> opcode byte, shape |-> [lens |-> parameter lengths, *)
(* end |-> the byte after the last parameter is END_CMD, good |-> the      *)
(* payload is the value that means success]].                              *)
(***************************************************************************)
EXTENDS Naturals, Sequences

\* Size of the stack buffer in which send_cmd_mixed builds the whole frame.
MixedBuf == 256

\* The opcode byte of a command (cmd & !REPLY_FLAG) and of its reply
\* (cmd | REPLY_FLAG), for an 8-bit opcode.
CmdByte(cmd) == cmd % 128

ReplyByte(cmd) == (cmd % 128) + 128

\* Bytes taken by the parameters of lens when each carries a prefix of w bytes.
Packed(w, lens) ==
    LET n[i \in 0..Len(lens)] == IF i = 0 THEN 0 ELSE n[i - 1] + w + lens[i]
    IN  n[Len(lens)]

\* send_cmd_mixed refuses a frame (three header bytes, the parameters, END_CMD)
\* that does not fit its buffer. The buffer is a multiple of four, so padding
\* a frame that fits never overflows it.
MixedFits(c) == 3 + Packed(2, c.params) + 1 <= MixedBuf

\* send_cmd checks no length: it sends `p.len() as u8` and then every byte of p,
\* so the frame of a parameter of 256 bytes or more does not say what it holds.
Intact(c) == c.mixed \/ \A i \in DOMAIN c.params : c.params[i] < 256

(***************************************************************************)
(* What the three receive functions decide from the reply header, before   *)
(* they read the payload: an error, or "body".                             *)
(***************************************************************************)
OneParam(c, r) ==
    IF r.cmd # ReplyByte(c.cmd) \/ Len(r.shape.lens) # 1 THEN "Framing"
    ELSE IF r.shape.lens[1] > c.out THEN "BufferTooSmall"
    ELSE "body"

\* The 16-bit variant reads the length after it has checked the two header
\* bytes; the order of the checks is the same.
OneParam16(c, r) ==
    IF r.cmd # ReplyByte(c.cmd) \/ Len(r.shape.lens) # 1 THEN "Framing"
    ELSE IF r.shape.lens[1] > c.out THEN "BufferTooSmall"
    ELSE "body"

\* recv_cmd_into packs every parameter as [len, bytes] into the scratch buffer.
IntoScratch(c, r) ==
    IF r.cmd # ReplyByte(c.cmd) THEN "Framing"
    ELSE IF Packed(1, r.shape.lens) > c.out THEN "BufferTooSmall"
    ELSE "body"

Header(c, r) ==
    CASE c.recv = "one"   -> OneParam(c, r)
      [] c.recv = "one16" -> OneParam16(c, r)
      [] c.recv = "into"  -> IntoScratch(c, r)

=============================================================================
