----------------------------- MODULE MCItemLookup -----------------------------
(* Small instances of ItemLookup for TLC.                                   *)
EXTENDS ItemLookup

CONSTANTS userKey, orgKey, itemKey

Sealed(key, plain) == [under |-> key, plain |-> plain]

NoSlots == [s \in Slots |-> None]

\* A login named n with a password and two custom fields.
Login(key, n) ==
    [NoSlots EXCEPT !["name"] = Sealed(key, n),
                    !["password"] = Sealed(key, "secret")]

Field(key, n, v) ==
    [name |-> Sealed(key, n),
     value |-> IF v = None THEN None ELSE Sealed(key, v)]

Cipher(i, org, k, slots, fields) ==
    [id |-> i, organization_id |-> org, key |-> k, slots |-> slots,
     fields |-> fields]

\* Personal items: plain, under a key of their own, with colliding and
\* valueless fields, and without anything to extract.
Db == Cipher("i1", FALSE, None, Login(userKey, "db"),
             <<Field(userKey, "api", "a1"), Field(userKey, "api", "a2")>>)
DbOwnKey == Cipher("i2", FALSE, Sealed(userKey, itemKey), Login(itemKey, "db"),
                   <<Field(itemKey, "port", "5432"),
                     Field(itemKey, "note", None)>>)
Collides == Cipher("i3", FALSE, None, Login(userKey, "web"),
                   <<Field(userKey, "password", "other"),
                     Field(userKey, Blank, "x")>>)
Empty == Cipher("i4", FALSE, None,
                [NoSlots EXCEPT !["name"] = Sealed(userKey, "web")], <<>>)

\* Items that do not open: one damaged field, and a wrapped key that is none.
Damaged == Cipher("i1", FALSE, None, Login(userKey, "db"),
                  <<[name |-> Malformed, value |-> None]>>)
BadKey == Cipher("i5", FALSE, Sealed(userKey, "junk"), Login(itemKey, "web"),
                 <<>>)

\* Shared items: under the organization's key, as servers send them, and one
\* that the user key happens to open.
Shared == Cipher("i6", TRUE, None, Login(orgKey, "db"), <<>>)
SharedReadable == Cipher("i6", TRUE, None, Login(userKey, "db"), <<>>)

Ciphers == {Db, DbOwnKey, Collides, Empty, Damaged, BadKey, Shared,
            SharedReadable}

MCVaults == UNION {[1 .. n -> Ciphers] : n \in 0 .. 3}

MCStripped == [p \in {"api", "field.api", "custom.api", "note", "value",
                      "field.password"} |->
                  CASE p \in {"api", "field.api", "custom.api"} -> "api"
                    [] p = "field.password" -> "password"
                    [] OTHER -> p]

Ask(scheme, value, property, version) ==
    [key |-> [scheme |-> scheme, value |-> value], property |-> property,
     version |-> version]

MCRequests ==
    {Ask("id", i, p, None) : i \in {"i1", "i3", "i6"},
                             p \in {None, "password", "field.api"}}
    \cup {Ask("name", n, p, None) : n \in {"db", "web"},
             p \in {None, "login.password", "field.password", "note", "name",
                    "attachment.a"}}
    \cup {Ask("bare", "db", None, None), Ask("bare", Blank, None, None),
          Ask("name", Blank, None, Blank), Ask("name", "db", Blank, None),
          Ask("name", "db", None, "v1")}
=============================================================================
