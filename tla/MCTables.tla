------------------------------ MODULE MCTables ------------------------------
EXTENDS Tables

\* Buttons: lines, dials with and without a hint, a service, a feature; three phones.
NoText == [kind |-> "empty", name |-> FALSE, options |-> FALSE, args |-> FALSE, known |-> FALSE, feature |-> "none"]
OfKind(k) == [NoText EXCEPT !.kind = k, !.name = TRUE, !.options = TRUE]
MCButtonLines ==
    {NoText, [OfKind("line") EXCEPT !.known = TRUE], [OfKind("line") EXCEPT !.options = FALSE],
     OfKind("dial"), [OfKind("dial") EXCEPT !.args = TRUE], OfKind("service"),
     [OfKind("feature") EXCEPT !.feature = "dnd"]}
MCAddonLists == {<<>>, <<"A7914">>}

\* Soft keys: no set, one of two modes, or of others in two sections; the built-in one.
In(m, keys) == [mode |-> m, keys |-> keys]
MCKeyFiles ==
    {<<>>,
     <<[name |-> "mine", uri |-> {"TRANSFER"},
        lines |-> <<In("CONNTRANS", <<"TRANSFER", "nokey", "out", "VIDEO_MODE", "JOIN">>),
                    In("CONNCONF", <<"JOIN", "CONFRN">>)>>]>>,
     <<[name |-> "mine", uri |-> {},
        lines |-> <<In("CONNTRANS", <<"JOIN", "VIDEO_MODE", "TRANSFER", "CONFRN">>)>>],
       [name |-> "default", uri |-> {}, lines |-> <<>>],
       [name |-> "mine", uri |-> {"REDIAL"}, lines |-> <<In("ONHOOK", <<"REDIAL">>)>>]>>}
MCDefaultKeys ==
    [ONHOOK |-> <<"REDIAL", "NEWCALL">>, RINGOUT |-> <<"TRANSFER", "JOIN">>,
     CONNECTED |-> <<"TRANSFER", "CONFRN">>,
     CONNTRANS |-> <<"TRANSFER", "CONFRN", "VIDEO_MODE", "MONITOR">>,
     CONNCONF |-> <<"CONFRN", "JOIN", "CONFLIST">>]

\* Settings: the words of the file, and what they mean.
WordsOfFile ==
    {"", "yes", "no", "maybe", "ab", "long", "lon", "5", "7", "60", "300", "0", "x", "on", "ef", "0x68",
     "none", "full", "a", "b", "any", "static", "1234567", "123456789", "12345678", "1234567890", "g1",
     "g2", "all", "ulaw", "alaw", "A1", "A2", "m1", "m2", "line", "dial", "dial+hint", "empty"}
MCNumber == ("0" :> 0) @@ ("5" :> 5) @@ ("7" :> 7) @@ ("60" :> 60) @@ ("300" :> 300)
MCCut == [w \in WordsOfFile |-> CASE w = "long" -> "lon" [] w = "123456789" -> "12345678" [] OTHER -> w]
MCLength == [w \in WordsOfFile |-> CASE w = "123456789" -> 9 [] w = "1234567890" -> 10 [] OTHER -> 1]
MCNumbers == [w \in WordsOfFile |-> CASE w = "g1" -> {1, 70} [] w = "g2" -> {1, 2} [] OTHER -> {}]
MCKnown == {"on", "ef", "0x68", "none", "a", "b", "any", "static", "all", "ulaw", "alaw", "A1", "A2",
            "line", "dial", "dial+hint", "empty"}
MCWithout == [w \in WordsOfFile |-> IF w = "dial+hint" THEN "dial" ELSE w]
MCKeptWords ==
    ("string" :> {"ab", "long"}) @@ ("boolean" :> {"yes", "no", "maybe"}) @@ ("number" :> {"7", "300", "x"})
    @@ ("enum" :> {"on", "ef", "x"}) @@ ("address" :> {"a", "b", "x"}) @@ ("port" :> {"5", "7"})
    @@ ("privacy" :> {"full", "no", "x"}) @@ ("ama" :> {"a", "x"})
    @@ ("digits" :> {"1234567", "123456789", "1234567890"}) @@ ("group" :> {"g1", "g2", "x"})
    @@ ("webdir" :> {"a", "x"}) @@ ("enable" :> {"yes", "no"}) @@ ("force" :> {"yes", "no"})
    @@ ("debug" :> {"a", "b"}) @@ ("disallow" :> {"all", "ulaw"}) @@ ("allow" :> {"ulaw", "alaw", "x"})
    @@ ("deny" :> {"a", "x"}) @@ ("permit" :> {"a", "x"}) @@ ("hosts" :> {"a", "b"})
    @@ ("addon" :> {"A1", "A2", "x"}) @@ ("mailbox" :> {"m1", "m2", ""}) @@ ("setvar" :> {"a", "x"})
    @@ ("button" :> {"line", "dial", "dial+hint", "x"})

\* Options by name, converter and field; a field of a device or a line, of [general], or
\* of both, where the section's own option wants [general]'s value.
Opt(n, k, p) ==
    [names |-> <<n>>, kind |-> k, part |-> p, resets |-> TRUE, from |-> "none", many |-> FALSE,
     obsolete |-> FALSE, builtin |-> <<>>]
Std(o, t) == [o EXCEPT !.builtin = <<<<o.names[1], t>>>>]
Many(o) == [o EXCEPT !.many = TRUE]
Still(o) == [o EXCEPT !.resets = FALSE]
Item(g, o, z, who) == [global |-> g, own |-> o, zero |-> z, owner |-> who]
OfSection(o, z, who) == Item(<<>>, <<o>>, o.part :> z, who)
OfGeneral(o, z) == Item(<<o>>, <<>>, o.part :> z, "general")
Both(o, z, who) == {OfSection(o, z, who), Item(<<o>>, <<[o EXCEPT !.from = "general"]>>, o.part :> z, who)}
Pair(o, names, texts) == [Many(o) EXCEPT !.names = names, !.builtin = texts]

MCCodecList == Still(Pair(Opt("allow", "codecs", "v"), <<"disallow", "allow">>,
                          <<<<"disallow", "all">>, <<"allow", "ulaw">>>>))
MCAccessList == Pair(Opt("deny", "access", "v"), <<"deny", "permit">>, <<<<"deny", "a">>, <<"permit", "b">>>>)
MCKeepalive == Std(Opt("number", "number", "keepalive"), "60")

MCItems ==
    UNION {Both(Opt("string", "string", "v"), "", "device"),
           Both(Std(Opt("string", "pointer", "v"), "ab"), "", "line"),
           Both(Std(Opt("boolean", "boolean", "v"), "yes"), "no", "device"),
           Both(Std(Opt("number", "number", "v"), "5"), 0, "device"),
           Both(Std(Opt("enum", "enum", "v"), "on"), "", "device"),
           Both(Still(Opt("string", "context", "v")), "", "line")}
    \cup {Item(<<MCKeepalive>>, <<[Still(MCKeepalive) EXCEPT !.from = "general"]>>, "keepalive" :> 0, "device"),
          Item(<<MCCodecList>>, <<[MCCodecList EXCEPT !.from = "general"]>>, "v" :> <<>>, "device"),
          Item(<<MCAccessList>>, <<[MCAccessList EXCEPT !.from = "general"]>>, "v" :> <<>>, "device"),
          Item(<<Still(Opt("address", "address", "address")), Still(Std(Opt("port", "port", "port"), "5"))>>,
               <<>>, ("address" :> "") @@ ("port" :> 0), "general"),
          Item(<<Still(Std(Opt("enable", "jbflag", "enable"), "no")), Still(Std(Opt("force", "jbflag", "force"), "no")),
                 Still(Std(Opt("number", "jbnumber", "size"), "300"))>>,
               <<>>, ("enable" :> "no") @@ ("force" :> "no") @@ ("size" :> 0), "general"),
          OfGeneral(Std(Opt("number", "narrow", "v"), "5"), 0),
          OfGeneral(Std(Opt("enum", "tos", "v"), "0x68"), "none"),
          OfGeneral(Std(Opt("number", "cos", "v"), "5"), 0),
          OfGeneral(Still(Std(Opt("string", "hotline", "v"), "ab")), ""),
          OfGeneral(Still(Std(Opt("webdir", "webdir", "v"), "")), ""),
          OfGeneral(Still(Std(Opt("boolean", "early", "v"), "yes")), "no"),
          OfGeneral(Still(Many(Std(Opt("debug", "debug", "v"), "a"))), {}),
          OfSection(Still(Std(Opt("privacy", "privacy", "v"), "yes")), "no", "device"),
          OfSection(Still(Opt("ama", "ama", "v")), "none", "line"),
          OfSection(Still(Std(Opt("digits", "digits", "v"), "")), "", "line"),
          OfSection(Still(Std(Opt("group", "group", "v"), "")), {}, "line"),
          OfSection(Many(Opt("hosts", "hosts", "v")), <<>>, "device"),
          OfSection(Many(Opt("addon", "addons", "v")), <<>>, "device"),
          OfSection(Std(Opt("mailbox", "mailbox", "v"), ""), <<>>, "line"),
          OfSection(Still(Many(Opt("setvar", "variables", "v"))), <<>>, "line"),
          OfSection(Many(Opt("button", "buttons", "buttons")), <<>>, "device")}

\* Calls: two phones on one line; a key that names two audio codecs, one video.  The
\* parties of a call: the caller and a third one whose name Asterisk does not know.

Entry(c, k, t) == [codec |-> c, key |-> k, type |-> t]
SmallTable == <<Entry("ulaw64", "ulaw", "audio"), Entry("ulaw56", "ulaw", "audio"),
                Entry("h264", "h264", "video")>>
Named(k) == [neg |-> FALSE, key |-> k]
Allow(tokens) == [allow |-> TRUE, tokens |-> tokens]
DisallowAll == [allow |-> FALSE, tokens |-> <<Named("all")>>]
SmallConfigs == {
  <<DisallowAll, Allow(<<Named("ulaw"), Named("h264")>>)>>,
  <<Allow(<<Named("all"), [neg |-> TRUE, key |-> "ulaw"]>>)>>,
  <<Allow(<<Named("lpc10")>>)>>}
\* t38 is no audio codec: its slot is left alone.
SmallLists == {<<"ulaw56", "ulaw64">>, <<"t38", "ulaw64", "h264">>}
SmallRemotes == {<<"ulaw56", "ulaw64", "h264">>}
SmallPreferred == {<<Named("ulaw")>>}
SmallDefaults == <<"ulaw64", "ulaw56">>
SmallGlobals == <<"ulaw64", NoCodec, NoCodec>>

TwoScreens == <<"a", "b">>
SmallVersion == [q \in {"a", "b"} |-> IF q = "a" THEN 16 ELSE 7]
TwoCallers == {Party("them"), [Party("third") EXCEPT !.name = Null]}
=============================================================================
