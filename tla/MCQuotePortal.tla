---------------------------- MODULE MCQuotePortal ----------------------------
(* Values for the constants of QuotePortal in the runs of TLC. *)
EXTENDS QuotePortal

CONSTANTS q1, k1, k2, t1, t2

\* Links on or off, customers free to reject or not.
AllSettings == [enabled : BOOLEAN, rejection : BOOLEAN]
=============================================================================
