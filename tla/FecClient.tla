----------------------------- MODULE FecClient ------------------------------
(***************************************************************************)
(* client_my_fec up to the transmitter: the column sums over a transport   *)
(* stream, in two banks of a RAM, and the hand-over of a finished bank to  *)
(* the transmitter's clock.  The stream's clock and the transmitter's have *)
(* no relation but MaxSkew.                                                *)
(*                                                                         *)
(* A byte is its position in the stream, modulo Ids; a sum is the set of   *)
(* the bytes that were added an odd number of times.  The RAM is external: *)
(* its output on the stream's side is the word the last edge addressed.    *)
(***************************************************************************)
EXTENDS Integers, FiniteSets

CONSTANTS
  PacketLen,      \* bytes of a transport packet
  RowPackets,     \* packets in a row, the payload of one datagram
  Rows,           \* rows in a frame
  Base,           \* PAYLOAD_OFFSET - 1, the address of a row's first byte
  RowMin,         \* a row may end above this address
  AddrBits,       \* width of ts_wr_byte
  MinGap,         \* clocks from a strobe to the next, at least
  MaxSkew,        \* edges of TS_CLK without one of tx_clk, at most
  MaxResets       \* bound: resets in a behaviour

Columns == PacketLen * RowPackets
Frame == Rows * Columns
Ids == 3 * Frame

ASSUME FecAssumption ==
  /\ PacketLen \in Nat \ {0} /\ RowPackets \in Nat \ {0} /\ Rows \in Nat \ {0}
  /\ Base \in Nat /\ RowMin \in Nat /\ AddrBits \in Nat /\ 2^AddrBits \in Nat
  /\ Base + Columns - PacketLen - 1 <= RowMin /\ RowMin < Base + Columns - 1
  /\ RowMin + PacketLen + 1 < 2^AddrBits /\ Base + Columns < 2^AddrBits
  /\ MinGap \in Nat /\ MinGap >= 2 /\ MaxSkew \in Nat \ {0}
  \* the flag of one frame has come and gone before the next frame ends
  /\ 2 * MaxSkew <= Frame * MinGap
  /\ MaxResets \in Nat

VARIABLES
  ts_wr_byte, ts_wr_bank, clk_ena_divider, frame_written,
  strobe_del, strobe_del1, ts_parallel_r, ts_parallel_r1,  \* delays
  ram, douta,                               \* fec2_dpram and its port A
  frame_written_del1, frame_written_del2,   \* registers of tx_clk
  \* the stream: the next byte, its place in its packet, clocks since a strobe
  byte, place, gap,
  skew,                                     \* TS_CLK edges since one of tx_clk
  \* history: whether a row has begun, frames begun and ended since, and
  \* frames ended that the transmitter was not told of; resets
  synced, whole, owed, resets

tsVars   == <<ts_wr_byte, ts_wr_bank, clk_ena_divider, strobe_del, strobe_del1,
              ts_parallel_r, ts_parallel_r1, ram, douta, byte, place, gap,
              synced>>
txVars   == <<frame_written_del1, frame_written_del2>>
fecVars  == <<tsVars, frame_written, txVars, skew, whole, owed, resets>>

NoByte == -1    \* what is on the bus between strobes
Address == 0 .. 2^AddrBits - 1

FecInit ==
  /\ ts_wr_byte = RowMin + 1 /\ ts_wr_bank = 0
  /\ clk_ena_divider = 0 /\ frame_written = FALSE
  /\ strobe_del = FALSE /\ strobe_del1 = FALSE
  /\ ts_parallel_r = NoByte /\ ts_parallel_r1 = NoByte
  /\ ram = [b \in 0 .. 1 |-> [x \in Address |-> {}]] /\ douta = {}
  /\ frame_written_del1 = FALSE /\ frame_written_del2 = FALSE
  /\ byte = 0 /\ place \in 0 .. PacketLen - 1 /\ gap = MinGap
  /\ skew = 0
  /\ synced = FALSE /\ whole = 0 /\ owed = 0 /\ resets = 0

-----------------------------------------------------------------------------

\* A row starts at the first sync byte above RowMin.
RowStarts == place = 0 /\ ts_wr_byte > RowMin

NextAddress ==
  IF RowStarts THEN Base ELSE (ts_wr_byte + 1) % 2^AddrBits

FrameFull == clk_ena_divider = Frame - 1

\* Mutant: the first row of a frame ends one byte late.
AddsLate == clk_ena_divider > Columns

\* ts_valid_strobe: the first row of a frame is stored, the others are added.
Adds == clk_ena_divider > Columns - 1

\* ts_parallel_in
ParallelIn ==
  LET new == {ts_parallel_r1}
  IN  IF Adds THEN (new \ douta) \union (douta \ new) ELSE new

\* An edge of TS_CLK, with or without a byte.  Every register takes its value
\* from those before the edge; the clearing of frame_written comes last.
StreamEdge(strobe) ==
  /\ skew < MaxSkew /\ skew' = skew + 1
  /\ strobe => gap >= MinGap
  /\ gap' = IF strobe THEN 1 ELSE IF gap < MinGap THEN gap + 1 ELSE gap
  /\ strobe_del' = strobe /\ strobe_del1' = strobe_del
  /\ ts_parallel_r' = IF strobe THEN byte ELSE NoByte
  /\ ts_parallel_r1' = ts_parallel_r
  /\ ram' = IF strobe_del1 THEN [ram EXCEPT ![ts_wr_bank][ts_wr_byte] = ParallelIn]
                           ELSE ram
  /\ douta' = ram'[ts_wr_bank][ts_wr_byte]
  /\ frame_written' =
       (~frame_written_del1 /\ (frame_written \/ (strobe /\ FrameFull)))
  /\ IF strobe
     THEN /\ ts_wr_byte' = NextAddress
          /\ clk_ena_divider' = IF FrameFull THEN 0 ELSE clk_ena_divider + 1
          /\ ts_wr_bank' = IF FrameFull THEN 1 - ts_wr_bank ELSE ts_wr_bank
          /\ byte' = (byte + 1) % Ids /\ place' = (place + 1) % PacketLen
          /\ synced' = (synced \/ RowStarts)
          /\ whole' = IF FrameFull /\ synced' /\ whole < 2 THEN whole + 1 ELSE whole
          /\ owed' = IF FrameFull THEN owed + 1 ELSE owed
     ELSE UNCHANGED <<ts_wr_byte, clk_ena_divider, ts_wr_bank, byte, place,
                      synced, whole, owed>>
  /\ UNCHANGED <<txVars, resets>>

\* Mutant: the flag's level is taken for its edge.
HandsOverLevel == frame_written_del1

\* fr_domen_tx_clk
HandsOver == frame_written_del1 /\ ~frame_written_del2

\* An edge of tx_clk.
TransmitterEdge ==
  /\ frame_written_del1' = frame_written
  /\ frame_written_del2' = frame_written_del1
  /\ owed' = IF HandsOver THEN owed - 1 ELSE owed
  /\ skew' = 0
  /\ UNCHANGED <<tsVars, frame_written, whole, resets>>

\* reset reaches these registers only, at once.  A frame the transmitter has
\* not sampled yet is forgotten.
Reset ==
  /\ resets < MaxResets /\ resets' = resets + 1
  /\ clk_ena_divider' = 0 /\ frame_written' = FALSE
  /\ whole' = 0
  /\ owed' = IF frame_written /\ ~frame_written_del1 THEN 0 ELSE owed
  /\ UNCHANGED <<ts_wr_byte, ts_wr_bank, strobe_del, strobe_del1,
                 ts_parallel_r, ts_parallel_r1, ram, douta, byte, place, gap,
                 synced, txVars, skew>>

FecNext == (\E strobe \in BOOLEAN : StreamEdge(strobe)) \/ TransmitterEdge \/ Reset

FecSpec == FecInit /\ [][FecNext]_fecVars

-----------------------------------------------------------------------------
(***************************************************************************)
(* Properties                                                              *)
(***************************************************************************)
Sum == SUBSET (0 .. Ids - 1)

\* Every register has its width; no word between strobes is ever stored.
FecTypeOK ==
  /\ ts_wr_byte \in Address /\ ts_wr_bank \in 0 .. 1
  /\ clk_ena_divider \in 0 .. Frame - 1 /\ frame_written \in BOOLEAN
  /\ strobe_del \in BOOLEAN /\ strobe_del1 \in BOOLEAN
  /\ ts_parallel_r \in -1 .. Ids - 1 /\ ts_parallel_r1 \in -1 .. Ids - 1
  /\ \A b \in 0 .. 1, x \in Address : ram[b][x] \subseteq 0 .. Ids - 1
  /\ byte \in 0 .. Ids - 1 /\ place \in 0 .. PacketLen - 1
  /\ gap \in 1 .. MinGap /\ skew \in 0 .. MaxSkew
  /\ whole \in 0 .. 2 /\ owed \in Int

\* The bytes of the frame in the bank the transmitter reads: the last byte
\* counted into a frame is stored when the bank has changed already, and
\* belongs to the next.
FrameInBank == {(byte - clk_ena_divider - 2 - i) % Ids : i \in 0 .. Frame - 1}

\* The bank the transmitter reads holds, in every column, the sum of one byte
\* from each row of one and the same frame, wherever in a row the frame began
\* and however strobes are spaced; only what a reset or the start of the
\* stream cut short is not a whole frame.
ColumnsSummed ==
  whole = 2 =>
    LET column == [c \in Base .. Base + Columns - 1 |-> ram[1 - ts_wr_bank][c]]
    IN  /\ UNION {column[c] : c \in DOMAIN column} = FrameInBank
        /\ \A c \in DOMAIN column :
             /\ Cardinality(column[c]) = Rows
             /\ \A i, j \in column[c] : (i - j) % Columns = 0

\* The transmitter is told of every frame exactly once, across the two clocks
\* and in time for the next: never twice, and never of one that did not end.
HandedOverOnce ==
  /\ owed \in 0 .. 1
  /\ HandsOver => owed = 1
=============================================================================
