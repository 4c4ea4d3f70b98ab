---------------------------- MODULE MCReedSolomon ----------------------------
(***************************************************************************)
(* Instance of ReedSolomon for TLC: the code of main.m, 239 symbols of     *)
(* eight bits with 16 of parity, and the places main.m overwrites.  The    *)
(* two others give words with one and two errors too many, and words whose *)
(* discrepancy is zero before all errors are found and not zero after it.  *)
(***************************************************************************)
EXTENDS ReedSolomon

\* x^8 + x^4 + x^3 + x^2 + 1
MCPolynomial == <<1, 0, 0, 0, 1, 1, 1, 0, 1>>

MCPlaces == {1, 2, 3, 4, 5, 71, 236, 252, 253, 255}

\* The parity main.m quotes for the message 1, 2 .. 239.
ASSUME ParityAsQuoted ==
  "xxbm" \in Models =>
    SubSeq(Codeword["xxbm"], K + 1, N) =
      <<37, 133, 225, 126, 37, 59, 132, 133, 56, 168, 179, 4, 9, 99, 79, 148>>
=============================================================================
