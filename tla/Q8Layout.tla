------------------------------ MODULE Q8Layout ------------------------------
(***************************************************************************)
(* fpga_q8_layout.cpp: where a 16-byte word of a WEIGHT tile lies.  Rows   *)
(* are stored in pairs, an odd last row is padded with a zero row, and the *)
(* words of a pair alternate between its two rows.  A function that        *)
(* returns false yields Refused.                                           *)
(***************************************************************************)
EXTENDS Integers

CONSTANTS
    SizeMax,     \* numeric_limits<size_t>::max()
    OffsetMax    \* UINT32_MAX

Refused == -1

PayloadRows(rows) == 2 * ((rows + 1) \div 2)

payload_words(rows, beats) ==
    IF rows <= 0 \/ beats <= 0 THEN Refused
    ELSE IF rows = SizeMax \/ PayloadRows(rows) > SizeMax \div beats THEN Refused
    ELSE PayloadRows(rows) * beats

payload_bytes(rows, beats) ==
    LET words == payload_words(rows, beats)
    IN  IF words = Refused \/ words > SizeMax \div 16 THEN Refused ELSE words * 16

\* Row pair, then beat, then even or odd row.
Candidate(beats, row, beat) == ((row \div 2) * beats + beat) * 2 + (row % 2)

word_index(rows, beats, row, beat) ==
    LET words == payload_words(rows, beats)
    IN  IF \/ row < 0 \/ beat < 0 \/ beat >= beats \/ words = Refused
           \/ row >= PayloadRows(rows) \/ Candidate(beats, row, beat) >= words
        THEN Refused ELSE Candidate(beats, row, beat)

word_offset(base, rows, beats, row, beat) ==
    LET index == word_index(rows, beats, row, beat)
    IN  IF \/ index = Refused \/ index > SizeMax \div 16
           \/ index * 16 > OffsetMax \/ base + index * 16 > OffsetMax
        THEN Refused ELSE base + index * 16
=============================================================================
