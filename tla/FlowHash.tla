------------------------------- MODULE FlowHash -------------------------------
(***************************************************************************)
(* The hash by which submit() picks a worker under FlowPinned: over the    *)
(* first bytes of the raw frame, before anything of it is decoded.         *)
(***************************************************************************)
EXTENDS Integers, Sequences, SequencesExt

CONSTANTS
    HashedBytes,  \* how many leading bytes are hashed (40 in the code)
    HashWidth     \* bits of the accumulator (size_t in the code); the workers
                  \* are told apart by its low bits when their number is a power
                  \* of two, so a narrower accumulator picks the same worker

HashStep(hash, byte) == (hash * 31 + byte) % 2^HashWidth

FrameHash(bytes) ==
    FoldLeft(HashStep, 0, SubSeq(bytes, 1, IF Len(bytes) < HashedBytes
                                           THEN Len(bytes) ELSE HashedBytes))
===============================================================================
