------------------------------ MODULE MCIncludes ------------------------------
(* Files and names for Includes.                                           *)
EXTENDS Includes

(* r and a in the root directory, a and b in directory d.                  *)
MCFile == {<<"r">>, <<"a">>, <<"d", "a">>, <<"d", "b">>}
MCRoots == {<<"r">>, <<>>}
MCBaseDirs == {<<>>, <<"d">>}

(* "b" is found in d only; "${D}/a" is the absolute /d/a, after D and the  *)
(* unset E in its value are substituted; "${U}/b" has the value of U, in   *)
(* which a reference is not closed.                                        *)
MCName == {<<"b">>, <<"${", "D", "}", "a">>, <<"${", "U", "}", "b">>}
MCEnvVar == {"D", "E", "U"}
MCEnv == [v \in MCEnvVar |-> CASE v = "D" -> <<"${", "E", "}", "d">>
                               [] v = "E" -> <<>>
                               [] v = "U" -> <<"${", "d">>]
=============================================================================
