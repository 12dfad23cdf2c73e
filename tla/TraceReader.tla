---------------------------- MODULE TraceReader -----------------------------
(***************************************************************************)
(* How the reader cuts the trace into lines: the reads of                  *)
(* multithreaded_sensor::_read_stream and split_string of utils.h, with    *)
(* what a read leaves of an unfinished line carried over to the next.      *)
(*                                                                         *)
(* A trace is a sequence of characters: NL, or one of a small set, since   *)
(* the splitting looks at nothing else.                                    *)
(***************************************************************************)
EXTENDS Integers, Sequences, SequencesExt

CONSTANTS
    Chars,          \* the other characters
    NL,             \* the end of a line
    BufferSize,     \* READ_BUFFER_SIZE
    MaxText         \* bound of the model: length of the trace

ASSUME TraceReaderAssumption ==
    /\ NL \notin Chars
    /\ BufferSize \in Nat \ {0, 1}
    /\ MaxText \in Nat

VARIABLES
    text,           \* the trace
    taken,          \* characters read so far
    eof,            \* trace_pipe.eof()
    last_line,      \* the unfinished line carried over
    lines           \* the lines found so far

readerVars == <<text, taken, eof, last_line, lines>>

ReaderInit ==
    /\ text \in BoundedSeq(Chars \cup {NL}, MaxText)
    /\ taken = 0 /\ eof = FALSE
    /\ last_line = <<>> /\ lines = <<>>

(* Positions of the ends of lines in str, in order; 0 ends the line before *)
(* the first.                                                              *)
Ends(str) ==
    <<0>> \o FlattenSeq([i \in 1..Len(str) |-> IF str[i] = NL THEN <<i>> ELSE <<>>])

(* Mutant of Pieces: the delimiter is part of the line. *)
PiecesWithEnd(str) ==
    LET ends == Ends(str)
    IN [i \in 1..(Len(ends) - 1) |-> SubSeq(str, ends[i] + 1, ends[i + 1])]

(* split_string: the lines of str that are ended, ... *)
Pieces(str) ==
    LET ends == Ends(str)
    IN [i \in 1..(Len(ends) - 1) |-> SubSeq(str, ends[i] + 1, ends[i + 1] - 1)]

(* Mutant of Carried: one character more has to be left. *)
CarriedIfLonger(str) ==
    LET prev == Last(Ends(str))
    IN IF prev < Len(str) - 2 THEN SubSeq(str, prev + 1, Len(str)) ELSE <<>>

(* ... and what follows them, unless it is a single character. An empty    *)
(* str, whose size() - 1 wraps around, leaves nothing in either branch.    *)
Carried(str) ==
    LET prev == Last(Ends(str))
    IN IF prev < Len(str) - 1 THEN SubSeq(str, prev + 1, Len(str)) ELSE <<>>

(* A read fills the buffer unless the trace ends first; then the last line *)
(* is ended for it.                                                        *)
Read ==
    /\ ~eof
    /\ eof' = (taken + BufferSize > Len(text))
    /\ taken' = IF eof' THEN Len(text) ELSE taken + BufferSize
    /\ LET chunk == SubSeq(text, taken + 1, taken')
           str   == last_line \o chunk \o (IF eof' THEN <<NL>> ELSE <<>>)
       IN /\ lines' = lines \o Pieces(str)
          /\ last_line' = Carried(str)
    /\ text' = text

ReaderNext == Read

ReaderSpec == ReaderInit /\ [][ReaderNext]_readerVars
-----------------------------------------------------------------------------
(* Properties *)

(* No line holds the end of a line. *)
ReaderTypeOK ==
    /\ text \in Seq(Chars \cup {NL})
    /\ taken \in 0..Len(text)
    /\ eof \in BOOLEAN
    /\ last_line \in Seq(Chars)
    /\ lines \in Seq(Seq(Chars))

(* A character that fills the buffer and is the first of its line. *)
Lone(k) ==
    /\ k % BufferSize = 0
    /\ text[k] # NL
    /\ k = 1 \/ text[k - 1] = NL

(* The first n characters of the trace, without those. *)
Kept(n) == FlattenSeq([k \in 1..n |-> IF Lone(k) THEN <<>> ELSE <<text[k]>>])

(* multithreaded_sensor.h:143-154, utils.h:109-130: wherever the reads cut *)
(* the trace, the lines laid end to end with the one carried over are the  *)
(* trace so far; but a read that ends one character into a line drops that *)
(* character.                                                              *)
LinesOfTheTrace ==
    FlattenSeq([i \in 1..Len(lines) |-> Append(lines[i], NL)]) \o last_line
        = Kept(taken) \o (IF eof THEN <<NL>> ELSE <<>>)
=============================================================================
