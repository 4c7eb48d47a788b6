------------------------------ MODULE MCGateway -------------------------------
(* Three events; a frame that carries nothing, and one that does not parse.    *)
EXTENDS WorkerGateway

MCResponses ==
  {<<>>,
   <<"e1", "e2", "completed">>,
   <<"e1", "comment", "e2", "e3", "completed">>,
   <<"e1", "e2", "broken", "e3", "completed">>}
===============================================================================
