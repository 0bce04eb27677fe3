----------------------------- MODULE ProtoCodec -----------------------------
(***************************************************************************)
(* proto::MsgCodec.  A message travels as LenCells cells of its length     *)
(* field and BodyCells cells of the rest (checksum, passback, id, body).   *)
(* What a decoder reads of a cell is its message and its place in it.      *)
(***************************************************************************)
EXTENDS Integers, Sequences

CONSTANTS LenCells, BodyCells

ASSUME CodecAssumption ==
    /\ LenCells \in Nat \ {0}
    /\ BodyCells \in Nat \ {0}

MsgCells == LenCells + BodyCells

\* EncodeMsg.
EncodeMsg(m) == [i \in 1..MsgCells |-> [msg |-> m, at |-> i]]

\* The cells i..j of buf are those of one message, from its cell i.
OfOneMsg(buf, j) ==
    j <= Len(buf) /\ \A i \in 1..j : buf[i].msg = buf[1].msg /\ buf[i].at = i

\* What IsWholeMsg may say.  It reads the whole length field whatever is in
\* the buffer: behind the end it finds any bytes, and a length below or above
\* the limits is an invalid one; so is, as a rule, a field put together from
\* two messages.
IsWholeMsg(buf, len_ok) ==
    CASE Len(buf) < LenCells -> {"part", "invalid"}
      [] Len(buf) >= LenCells /\ ~OfOneMsg(buf, LenCells) ->
            IF Len(buf) >= MsgCells THEN {"part", "invalid", "whole"} ELSE {"part", "invalid"}
      [] Len(buf) >= LenCells /\ OfOneMsg(buf, LenCells) ->
            IF ~len_ok[buf[1].msg] THEN {"invalid"}
            ELSE IF Len(buf) < MsgCells THEN {"part"} ELSE {"whole"}

\* DecodeMsg of a whole message succeeds: the checksum is right.
DecodeMsg(buf, sum_ok) == OfOneMsg(buf, MsgCells) /\ sum_ok[buf[1].msg]

\* What is left behind the first message.
Left(buf) == SubSeq(buf, MsgCells + 1, Len(buf))
=============================================================================
