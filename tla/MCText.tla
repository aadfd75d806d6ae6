------------------------------- MODULE MCText -------------------------------
(***************************************************************************)
(* Values of the constants of Text for model checking.                     *)
(***************************************************************************)
EXTENDS Text

(* /a/a and /b exist, and the link /a/l to /b. *)
MCPlaces == { <<>>, <<"a">>, <<"a", "a">>, <<"b">> }
MCLinks == { << <<"a", "l">>, <<"b">> >> }
MCPwds == { <<>>, <<"a">> }

(* Nothing, everything, and rwxr-x--- with the sticky bit. *)
MCOldPerms ==
  { {}, AllBits, Bits("u") \cup (Bits("g") \ {<<"g", "w">>}) \cup {Sticky} }

MCTokens == DOMAIN Spelling

(* All words of up to three letters, and names with special characters. *)
MCFiles ==
  UNION { [1 .. n -> {"a", "b"}] : n \in 1 .. 3 }
    \cup { <<"*">>, <<"-">>, <<"]">>, <<"\"">>, <<"\"", "\"">>,
           <<"a", " ", "b">>, <<"a", "\"", "b">>, <<"a", "[", "b">> }
=============================================================================
