------------------------------ MODULE MCReads ------------------------------
(***************************************************************************)
(* A small instance of Reads for TLC, over the credentials of              *)
(* MCHolderSession: offers of which some are accepted while the reader     *)
(* works, one that rides with a request, and a list that the host provides.*)
(***************************************************************************)
EXTENDS Reads, MCHolderSession

\* The first request asks for everything, a later one for good.
MCWanted == [n \in Ordinal |-> IF n = 1 THEN MCCredential ELSE {good}]

\* rival stands for a host credential of another format.
MCJsonLd == MCCredential \ {rival}

MCProvidedLists == {{}, {good, rival}}

MCReadShapes ==
  {[Nothing EXCEPT !.creds = <<good, plain>>, !.vpr = TRUE],
   [Nothing EXCEPT !.creds = <<twin>>, !.vpr = TRUE],
   [Nothing EXCEPT !.creds = <<twin>>],
   [Nothing EXCEPT !.creds = <<enveloped, forged>>]}
=============================================================================
