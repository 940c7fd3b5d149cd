-------------------------- MODULE MCServerSentEvents --------------------------
(* A small log for TLC: data on two lines, a changed delay, no data at all. *)
EXTENDS ServerSentEvents

MCLog ==
  << << <<"id", 1>>, <<"data", 11>>, <<"data", 12>> >>,
     << <<"retry", 1000>>, <<"id", 2>>, <<"retry", NaN>> >>,
     << <<"data", 31>>, <<"id", 3>> >> >>
================================================================================
