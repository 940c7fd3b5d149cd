-------------------------------- MODULE MCHaru --------------------------------
(* A .env with and without an id (with a comment behind it), next to a value  *)
(* that needs its quotes, one with a comment behind it, one that opens a      *)
(* quote and one with a quote inside.                                         *)
EXTENDS Haru

Others == ("PROMPT" :> <<Quote, "a", " ", "#", "b", Quote>>) @@ ("URL" :> <<"a", "=", "b">>)
          @@ ("MODEL" :> <<"a", " ", "#", "b">>) @@ ("OPEN" :> <<Quote, "a">>)
          @@ ("INSIDE" :> <<"a", Quote, "b">>)

MCSetups == {[file |-> Others, shell |-> NoId],
             [file |-> (IdKey :> <<"kept", " ", "#", "b">>) @@ Others, shell |-> <<"set">>],
             [file |-> (IdKey :> <<"kept", " ", "#", "b">>) @@ Others, shell |-> NoId]}
MCSizes == <<1, 2>>
MCIds == <<"first", "second">>
================================================================================
