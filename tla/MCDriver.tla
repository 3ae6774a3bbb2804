------------------------------ MODULE MCDriver ------------------------------
(* Two runs of the compiler, on sources of every kind, with options that    *)
(* end them at each stage.  One directory is shared, one is its own, one    *)
(* cannot be written to.                                                    *)
EXTENDS Driver
P(dir, stem, ext) == [dir |-> dir, stem |-> stem, ext |-> ext]
MCPathOf == ("a.ric" :> P("here", "a", ".ric")) @@ ("b.ric" :> P("here", "b", ".ric"))
         @@ ("wrong.ric" :> P("here", "wrong", ".ric")) @@ ("lib.ric" :> P("here", "lib", ".ric"))
         @@ ("rax.ric" :> P("here", "rax", ".ric")) @@ ("gone.ric" :> P("here", "gone", ".ric"))
         @@ ("a.out" :> P("here", "a", ".out")) @@ ("prog" :> P("here", "prog", ""))
         @@ ("there/prog" :> P("there", "prog", "")) @@ ("locked/prog" :> P("locked", "prog", ""))
         @@ ("prog.asm" :> P("here", "prog", ".asm"))
MCSources == ("a.ric" :> "good") @@ ("b.ric" :> "good") @@ ("wrong.ric" :> "wrong")
          @@ ("lib.ric" :> "no_main") @@ ("rax.ric" :> "not_for_nasm")
MCJoined  == ("-othere/prog" :> "there/prog") @@ ("-olocked/prog" :> "locked/prog")
MCDashed  == {"-x", "--verbose"} \cup Flags \cup DOMAIN MCJoined

MCCommandLines ==
    {<<"a.ric">>, <<"-o", "prog", "a.ric">>, <<"b.ric", "-o", "prog">>,
     <<"b.ric", "--no-link", "-o", "prog">>, <<"a.ric", "--no-assemble">>,
     <<"b.ric", "--emit-asm", "-O0", "-othere/prog">>, <<"a.ric", "-olocked/prog", "-O2">>,
     <<"b.ric", "-o", "locked/prog", "-othere/prog", "-O1", "--emit-ir">>,
     <<"wrong.ric", "-o", "prog">>, <<"lib.ric">>, <<"rax.ric", "-o", "prog">>, <<"gone.ric">>}
    \cup {<<"a.ric", "-o", "prog.asm">>, <<>>, <<"a.ric", "-o">>, <<"a.ric", "b.ric">>, <<"-x", "-h">>, <<"a.ric", "-h", "-x">>}


(* Two programs that are compiled to two names in one directory, one of     *)
(* them perhaps over the source of the other.                               *)
MCCrowd == {<<"-o", "prog", "a.ric">>, <<"b.ric">>, <<"-o", "b.ric", "a.ric">>}
=============================================================================
