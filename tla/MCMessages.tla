----------------------------- MODULE MCMessages -----------------------------
(***************************************************************************)
(* What programs send and receive: arrays of bytes, raw or holding values  *)
(* (MCByteArray), and HTTP messages (HttpParser).  mode says which of them *)
(* a behaviour is about.                                                   *)
(***************************************************************************)
EXTENDS MCByteArray

CONSTANT MaxPieces
VARIABLES parser_kind, parser_cs, parser_uri_relaxed, parser_off, parser_data, parser_m_error,
          parser_pc, parser_pieces, parser_fresh, parser_cuts
H == INSTANCE HttpParser WITH
       kind <- parser_kind, cs <- parser_cs, uri_relaxed <- parser_uri_relaxed,
       off <- parser_off, data <- parser_data, m_error <- parser_m_error,
       pc <- parser_pc, pieces <- parser_pieces, fresh <- parser_fresh,
       cuts <- parser_cuts
http == <<parser_kind, parser_cs, parser_uri_relaxed, parser_off, parser_data, parser_m_error,
          parser_pc, parser_pieces, parser_fresh, parser_cuts>>

MessagesInit ==
  /\ MCInit /\ H!Init
  /\ IF mode = "http" THEN ba.m_base_size = 1 /\ ~swap ELSE parser_kind = "request" /\ ~parser_uri_relaxed
MessagesNext ==
  \/ MCNext /\ UNCHANGED http
  \/ mode = "http" /\ H!Next /\ UNCHANGED mcVars
MessagesSpec == MessagesInit /\ [][MessagesNext]_<<mcVars, http>>

\* However a message is cut, a callback of a parser never gets the text of another part, and a
\* piece that ends inside one part of a request does no harm to another part.
OnlyCutPartsSuffer == H!OnlyCutPartsSuffer

\* A cut response's parser spoils the part it was cut in and no other, and takes no third piece
\* but behind an empty header.
ResponseCuts == H!ResponseCuts
=============================================================================
