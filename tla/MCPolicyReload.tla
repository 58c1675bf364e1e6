---------------------------- MODULE MCPolicyReload ----------------------------
(* Small instances of PolicyReload for TLC.                                 *)
EXTENDS PolicyReload

CONSTANTS k1, k2, p

MCCovers == [q \in {p} |-> {k1}]

Text(lines) == [kind |-> "text", lines |-> lines]
Bad(kind, lines) == [kind |-> kind, lines |-> lines]
Plain(pieces) == [comment |-> FALSE, pieces |-> pieces]
Comment(pieces) == [comment |-> TRUE, pieces |-> pieces]

GenPrefixOnly == [keys |-> Text(<<Comment(<<k1>>), Plain(<<k2>>)>>),
                  key_prefixes |-> Text(<<Plain(<<p>>)>>)]
GenExactOnly == [keys |-> Text(<<Plain(<<k1, Blank>>), Plain(<<k2>>)>>),
                 key_prefixes |-> Text(<<Plain(<<Blank>>)>>)]
GenSwapped == [keys |-> Text(<<Plain(<<k2, k1>>)>>),
               key_prefixes |-> Text(<<Comment(<<p>>)>>)]
GenOversized == [keys |-> Bad("oversized", <<Plain(<<k1>>)>>),
                 key_prefixes |-> Bad("unreadable", <<>>)]
GenEmpty == [keys |-> Text(<<Comment(<<k2>>)>>), key_prefixes |-> Text(<<>>)]
GenMissing == [keys |-> Text(<<Plain(<<k2>>)>>),
               key_prefixes |-> Bad("missing", <<>>)]

AllGenerations == <<GenPrefixOnly, GenExactOnly, GenOversized, GenEmpty,
                    GenMissing, GenSwapped>>
PrefixToExact == <<GenPrefixOnly, GenExactOnly>>

Start(all, ks, ps, kf, pf, i) ==
    [allow_all_selectors |-> all, allowed_keys |-> ks,
     allowed_key_prefixes |-> ps, keys_file |-> kf, key_prefixes_file |-> pf,
     interval |-> i]

BothFiles == Start(FALSE, <<>>, <<>>, TRUE, TRUE, 30)

AllConfigs ==
    {BothFiles,
     Start(FALSE, <<k2>>, <<>>, TRUE, TRUE, 30),
     Start(FALSE, <<>>, <<>>, TRUE, FALSE, 30),
     Start(FALSE, <<>>, <<p>>, FALSE, TRUE, 30),
     Start(FALSE, <<>>, <<>>, TRUE, TRUE, 0),
     Start(FALSE, <<k1>>, <<>>, FALSE, FALSE, 30),
     Start(FALSE, <<k1, Blank>>, <<>>, FALSE, FALSE, 30),
     Start(TRUE, <<>>, <<>>, FALSE, FALSE, 30),
     Start(TRUE, <<>>, <<>>, TRUE, FALSE, 30),
     Start(FALSE, <<>>, <<>>, FALSE, FALSE, 30)}

TwoFilesOnly == {BothFiles}
=============================================================================
