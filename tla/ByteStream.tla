----------------------------- MODULE ByteStream -----------------------------
(***************************************************************************)
(* What a byte buffer promises its users: bytes come out in the order they *)
(* went in.  "content" are the bytes written and not yet read, "moved" the *)
(* bytes the last operation put in or gave out.                            *)
(***************************************************************************)
EXTENDS Integers, Sequences

VARIABLES content, moved

Write(s) == content' = content \o s /\ moved' = s

Read(n) ==
  /\ n <= Len(content)
  /\ moved' = SubSeq(content, 1, n)
  /\ content' = SubSeq(content, n + 1, Len(content))

\* Bytes are passed over without being given.
Skip(n) ==
  /\ n <= Len(content)
  /\ moved' = <<>>
  /\ content' = SubSeq(content, n + 1, Len(content))

Clear == content' = <<>> /\ moved' = <<>>
=============================================================================
