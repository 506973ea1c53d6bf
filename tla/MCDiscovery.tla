---------------------------- MODULE MCDiscovery ----------------------------
(***************************************************************************)
(* A small instance of Discovery for TLC: endpoints that may and may not   *)
(* be contacted, no, one or two iuv parameters, and a cap of three bytes.  *)
(***************************************************************************)
EXTENDS Discovery

MCVersion == {"1", "2"}

Endpoints == {[scheme |-> "https", host |-> "remote"],
              [scheme |-> "http", host |-> "loopback"],
              [scheme |-> "http", host |-> "remote"],
              [scheme |-> "other", host |-> "none"]}

Urls == {[scheme |-> e.scheme, host |-> e.host, iuv |-> v] :
           e \in Endpoints, v \in {<<>>, <<"1">>, <<"1", "2">>, <<"2", "1">>}}

MCInputs == [interaction : BOOLEAN, url : Urls \cup {Malformed}]

MCDocuments ==
  {[parses |-> FALSE, vcapi |-> None]}
  \cup [parses : {TRUE},
        vcapi : {u \in Urls : u.iuv = <<>> \/ (u.scheme = "https" /\ u.iuv = <<"1">>)}
                \cup {None, Malformed}]
=============================================================================
