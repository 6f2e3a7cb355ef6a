------------------------------ MODULE MCFormat ------------------------------
(* EmbedFormat for TLC: two sectors and a dynamic field, every kind of value *)
(* and of path, fields that embed others, one another, and what is missing.  *)
EXTENDS EmbedFormat

S(text)  == [from |-> "text", text |-> text, stays |-> text]
Esc(s)   == [from |-> "text", text |-> <<"\\", s>>, stays |-> <<s>>]
Ref(from, elements, path) ==
    [from |-> from, elements |-> elements, text |-> <<"$", "(">> \o path \o <<")">>]
Here(name)    == Ref("here", << <<name>> >>, <<name>>)
Root(a, b, c) == Ref("root", << <<a>>, <<b>>, <<c>> >>, <<"/", a, "/", b, "/", c>>)
Dyn(name)     == Ref("dynfields", << <<name>> >>, <<"%", name, "%">>)

\* The values that strings have.
Plain   == <<S(<<"v">>)>>
Long    == <<S(<<"v", "v", "v", "v", "v", "v", "v", "v">>)>>
Nested  == <<S(<<"x">>), Here("p"), Dyn("p"), Here("n")>>
Deeper  == <<Here("e"), Root("s", "u", "l"), Esc("$"), S(<<"y">>)>>
Endless == <<S(<<"x">>), Here("c")>>
Broken  == <<Here("i")>>

Values == {Plain, Long, Nested, Deeper, Endless, Broken, << >>}

\* In these, escapes are inside of an embed.
Raw(text) == <<S(text)>>
Crossing == {Raw(<<"$", "(", "n", "\\", "x", ")">>),
             Raw(<<"x", "x", "x", "x", "$", "(", "n", "\\", "x", ")">>)}

\* A path of four elements; a list with an embed before the next space.
Deep   == <<[Root("s", "t", "n") EXCEPT
                !.text = <<"$", "(", "/", "s", "/", "t", "/", "n", "/", "x", ")">>]>>
Behind == Raw(<<"x", "x", "x", "x", "x", " ", "$", "(", "m", ")", "$", "(", "n", ")", " ">>)

MCTemplates ==
    Values \cup Crossing \cup
    { <<Here("d")>>,
      <<S(<<"x">>), Here("n"), Here("b"), Here("n")>>,
      <<Here("p"), Here("l"), Here("e")>>,
      <<Esc("$"), S(<<"(", "n", ")">>), Esc("\\"), Here("b")>>,
      <<S(<<"$", " ", "(", ")", "$">>), Here("n"), S(<<"$", "(", "n">>)>>,
      <<S(<<"$", "(", "p", "x">>),
        [from |-> "here", elements |-> << <<"p", "x", "y">> >>, text |-> <<"$", "(", "y", ")">>],
        S(<<" ", " ", " ">>)>>,
      <<Ref("here", << <<"u">>, <<"l">> >>, <<"u", "/", "l">>), Ref("root", << <<"s">> >>, <<"/", "s">>)>>,
      <<Ref("here", << <<"t">>, <<"x">> >>, <<"t", "/", "/", "x", "/">>), S(<<"x", "x", "x">>)>>,
      <<S(<<"x">>), Here("x")>>,
      <<Ref("here", << <<"x", "x", "x", "x", "x", "x">> >>, <<"x", "x", "x", "x", "x", "x">>), Here("p")>>,
      <<Ref("here", << >>, <<"/">>), Dyn("x"), Dyn("n")>>,
      <<Here("%")>>, <<Here("i")>>, <<Here("j")>>, <<Here("k")>>, <<Here("m")>>,
      <<S(<<"x", " ">>), [Here("m") EXCEPT !.text = <<"p", "$", "(", "m", ")", "q">>], S(<<" ", "x">>)>>,
      <<Here("o"), [Here("m") EXCEPT !.text = <<"x", "$", "(", "m", ")">>]>>,
      Deep, <<Ref("here", << <<"%">> >>, <<"%", "/">>)>>, Behind }

N(name) == [base |-> <<name>>, newlines |-> 0]
F(name, type, data) == [name |-> N(name), type |-> type, data |-> data]
Str(name, parts)    == F(name, "TYPE_STRING", [text |-> TextOf(parts)])
List_(name, elems)  == F(name, "TYPE_LIST", [type |-> "TYPE_U8", elems |-> elems])

Here_ ==
    << Str("p", Plain), Str("l", Long), F("n", "TYPE_I8", [bytes |-> <<246>>]),
       F("b", "TYPE_BOOL", [bytes |-> <<0>>]), Str("e", Nested), Str("d", Deeper),
       Str("c", Endless), Str("q", Broken), Str("o", << >>),
       F("i", "TYPE_STRING", NULL), F("j", "TYPE_U8", NULL),
       List_("k", <<[name |-> 1, data |-> [bytes |-> <<7>>]]>>), List_("m", << >>) >>

MCFile ==
    [sectors   |-> << [name |-> N("s"),
                       sections |-> << [name |-> N("t"), fields |-> Here_],
                                       [name |-> N("u"), fields |-> <<Str("l", Long)>>] >>],
                      [name |-> N("r"), sections |-> << >>] >>,
     dynfields |-> << Str("p", Long), F("n", "TYPE_U16", [bytes |-> <<0, 1>>]) >>]

MCFiles == {MCFile}
MCBases == Seq(Characters \cup {"r"})
MCTexts == Seq(Characters)
MCRel(field) == [absolute |-> TRUE, dynfield_path |-> FALSE, sector |-> <<"s">>,
                 section |-> <<"t">>, field |-> field]
MCRelativities == {MCRel(<<"n">>), [MCRel(NULL) EXCEPT !.section = NULL]}
=============================================================================
