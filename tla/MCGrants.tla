------------------------------ MODULE MCGrants ------------------------------
(* Two services and a backend of config.json, one path, a user and an       *)
(* administrator.                                                           *)
EXTENDS Grants

Docs == <<"/", "docs">>
MCOrder == << <<"app">>, <<"app", Docs>>, <<"base">>, <<"base", Docs>>,
              <<"wiki">>, <<"wiki", Docs>> >>
MCPaths == {Docs}
=============================================================================
