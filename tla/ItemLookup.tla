------------------------------ MODULE ItemLookup ------------------------------
(***************************************************************************)
(* From a webhook request to a secret document: BitwardenSelector::try_from,*)
(* the lookup by id or by name in one synced vault, decryption, and the     *)
(* extraction of one property or of the whole item.                         *)
(*                                                                          *)
(* The lookup by name is the loop of resolve_synced_cipher_by_name, one     *)
(* cipher per step.  An encrypted string is a record of the key it was      *)
(* sealed under and its plaintext; opening it under another key fails the   *)
(* MAC.  Item names, field names and values are abstract.                   *)
(***************************************************************************)
EXTENDS Integers, Sequences

CONSTANTS
    Vaults,       \* sequences of encrypted ciphers the server may return
    Requests,     \* remote references callers may send
    UserKey,      \* the unlocked user key
    KeyMaterial,  \* plaintexts that parse as a symmetric key
    Stripped,     \* Stripped[p]: p without "field.", or else without "custom."
    Attachments,  \* properties that start with "attachment." or "attachments."
    Malformed,    \* a string that does not parse as an encrypted string
    Blank,        \* a string that is empty after trimming
    None

VARIABLES
    vault,       \* sync.ciphers of the cached vault
    request,     \* the caller's RemoteRef
    pc,
    next,        \* index of the cipher the scan looks at
    name_match,  \* index of the match found so far, or None
    item,        \* index of the resolved cipher, or None
    outcome,     \* None while running, "ok", or the error
    document     \* the secret document's data

vars == <<vault, request, pc, next, name_match, item, outcome, document>>

\* The slots to_secret_document exposes; "name" can only be asked for.
DocumentSlots == {"notes", "username", "password", "totp", "privateKey",
                  "publicKey", "keyFingerprint"}
Slots == DocumentSlots \cup {"name"}

NoDocument == [k \in {} |-> None]

Outcomes == {"ok", "validation", "unsupported_version", "not_found",
             "unsupported_shared_item", "decrypt_failed",
             "ambiguous_selector", "unsupported_attachment",
             "missing_property", "no_extractable_fields"}

Init ==
    /\ vault \in Vaults
    /\ request \in Requests
    /\ pc = "try_from"
    /\ next = 1
    /\ name_match = None /\ item = None
    /\ outcome = None
    /\ document = NoDocument

-----------------------------------------------------------------------------
(* Decryption: all of a cipher's strings or none.                           *)

Opens(string, key) == string # Malformed /\ string.under = key

Plain(string) == IF string = None THEN None ELSE string.plain

\* The per-cipher key, when there is one, is itself sealed under the user key.
HasDecryptionKey(c) ==
    c.key # None => Opens(c.key, UserKey) /\ c.key.plain \in KeyMaterial

DecryptionKey(c) == IF c.key = None THEN UserKey ELSE c.key.plain

\* The login and the SSH key, with the item's own name and notes.
SlotStrings(c) == {c.slots[s] : s \in Slots}

FieldStrings(c) ==
    UNION {{c.fields[i].name, c.fields[i].value} : i \in 1 .. Len(c.fields)}

Strings(c) == SlotStrings(c) \cup FieldStrings(c)

Decrypts(c) ==
    /\ HasDecryptionKey(c)
    /\ \A string \in Strings(c) \ {None} : Opens(string, DecryptionKey(c))

NameOf(c) == Plain(c.slots["name"])

\* A string that opens has a plaintext, be it empty.
ASSUME NoneAssumption == None \notin Nat \cup Slots \cup Outcomes
ASSUME VaultsAssumption ==
    \A v \in Vaults :
        /\ Len(v) \in Nat
        /\ \A i \in 1 .. Len(v) :
              /\ Len(v[i].fields) \in Nat
              /\ \A string \in Strings(v[i]) \ {None, Malformed} :
                    string.plain # None

-----------------------------------------------------------------------------
(* Extraction from a decrypted cipher.                                      *)

\* The conventional property names and their aliases.
SlotOf(property) ==
    CASE property = "name" -> "name"
      [] property = "notes" -> "notes"
      [] property \in {"username", "login.username"} -> "username"
      [] property \in {"password", "login.password"} -> "password"
      [] property \in {"totp", "login.totp"} -> "totp"
      [] property \in {"privateKey", "sshPrivateKey", "sshKey.privateKey"} ->
            "privateKey"
      [] property \in {"publicKey", "sshPublicKey", "sshKey.publicKey"} ->
            "publicKey"
      [] property \in {"keyFingerprint", "sshKey.keyFingerprint"} ->
            "keyFingerprint"
      [] OTHER -> None

\* The first field of that name decides, even when it has no value.
CustomValue(c, name) ==
    LET named == {i \in 1 .. Len(c.fields) : Plain(c.fields[i].name) = name}
    IN  IF named = {} THEN None
        ELSE Plain(c.fields[CHOOSE i \in named : \A j \in named : i <= j].value)

\* None is MissingProperty.
ExtractProperty(c, property) ==
    IF SlotOf(property) # None
    THEN Plain(c.slots[SlotOf(property)])
    ELSE CustomValue(c, Stripped[property])

\* A BTreeMap insert: an entry of that name is replaced.
Put(doc, name, value) ==
    [k \in DOMAIN doc \cup {name} |-> IF k = name THEN value ELSE doc[k]]

\* Mutant: fields without a value overwrite what is there.
InsertAnyField(doc, field) ==
    IF Plain(field.name) \in {None, Blank} THEN doc
    ELSE Put(doc, Plain(field.name), Plain(field.value))

\* One iteration of the loop over the fields.
InsertField(doc, field) ==
    IF Plain(field.name) \in {None, Blank} \/ field.value = None
    THEN doc
    ELSE Put(doc, Plain(field.name), Plain(field.value))

\* What the slots put there before the loop over the fields.
ConventionalDocument(c) ==
    [s \in {t \in DocumentSlots : c.slots[t] # None} |-> Plain(c.slots[s])]

\* The document after each iteration of that loop.
Inserted(c) ==
    LET doc[i \in 0 .. Len(c.fields)] ==
          IF i = 0 THEN ConventionalDocument(c)
          ELSE InsertField(doc[i - 1], c.fields[i])
    IN  doc

ToSecretDocument(c) == Inserted(c)[Len(c.fields)]

PropertyDocument(property, value) == [k \in {property, "value"} |-> value]

-----------------------------------------------------------------------------
(* The steps of a resolve.                                                  *)

Finish(result) ==
    /\ pc' = "done"
    /\ outcome' = result

\* BitwardenSelector::try_from, in the order of its checks.
SelectorError ==
    CASE request.key.scheme = "bare" /\ request.key.value = Blank ->
            "validation"
      [] request.version \notin {None, Blank} -> "unsupported_version"
      [] request.property = Blank -> "validation"
      [] request.key.scheme = "bare" -> "validation"
      [] request.key.value = Blank -> "validation"
      [] OTHER -> None

RejectSelector ==
    /\ pc = "try_from"
    /\ SelectorError # None
    /\ Finish(SelectorError)
    /\ UNCHANGED <<vault, request, next, name_match, item, document>>

AcceptSelector ==
    /\ pc = "try_from"
    /\ SelectorError = None
    /\ pc' = IF request.key.scheme = "id" THEN "by_id" ELSE "by_name"
    /\ UNCHANGED <<vault, request, next, name_match, item, outcome, document>>

WithId == {i \in 1 .. Len(vault) : vault[i].id = request.key.value}

\* iter().find: the first cipher with that id.
FindCipherById == CHOOSE i \in WithId : \A j \in WithId : i <= j

\* Mutant: the organization is not looked at before decryption.
ResolveByIdUnchecked ==
    /\ pc = "by_id"
    /\ \/ /\ WithId = {}
          /\ Finish("not_found")
          /\ UNCHANGED item
       \/ /\ WithId # {}
          /\ ~Decrypts(vault[FindCipherById])
          /\ Finish("decrypt_failed")
          /\ UNCHANGED item
       \/ /\ WithId # {}
          /\ Decrypts(vault[FindCipherById])
          /\ item' = FindCipherById
          /\ pc' = "screen"
          /\ UNCHANGED outcome
    /\ UNCHANGED <<vault, request, next, name_match, document>>

ResolveById ==
    /\ pc = "by_id"
    /\ \/ /\ WithId = {}
          /\ Finish("not_found")
          /\ UNCHANGED item
       \/ /\ WithId # {}
          /\ vault[FindCipherById].organization_id
          /\ Finish("unsupported_shared_item")
          /\ UNCHANGED item
       \/ /\ WithId # {}
          /\ ~vault[FindCipherById].organization_id
          /\ ~Decrypts(vault[FindCipherById])
          /\ Finish("decrypt_failed")
          /\ UNCHANGED item
       \/ /\ WithId # {}
          /\ ~vault[FindCipherById].organization_id
          /\ Decrypts(vault[FindCipherById])
          /\ item' = FindCipherById
          /\ pc' = "screen"
          /\ UNCHANGED outcome
    /\ UNCHANGED <<vault, request, next, name_match, document>>

\* One iteration of the loop over the vault, in the order of its tests.
Matches(i) == Decrypts(vault[i]) /\ NameOf(vault[i]) = request.key.value

ScanSkip ==
    /\ pc = "by_name" /\ next <= Len(vault)
    /\ ~Matches(next)
    /\ next' = next + 1
    /\ UNCHANGED <<vault, request, pc, name_match, item, outcome, document>>

ScanShared ==
    /\ pc = "by_name" /\ next <= Len(vault)
    /\ Matches(next)
    /\ vault[next].organization_id
    /\ Finish("unsupported_shared_item")
    /\ UNCHANGED <<vault, request, next, name_match, item, document>>

ScanAmbiguous ==
    /\ pc = "by_name" /\ next <= Len(vault)
    /\ Matches(next)
    /\ ~vault[next].organization_id
    /\ name_match # None
    /\ Finish("ambiguous_selector")
    /\ UNCHANGED <<vault, request, next, name_match, item, document>>

\* Mutant: the loop stops at the first match.
ScanMatchFirst ==
    /\ pc = "by_name" /\ next <= Len(vault)
    /\ Matches(next)
    /\ ~vault[next].organization_id
    /\ name_match = None
    /\ name_match' = next
    /\ next' = Len(vault) + 1
    /\ UNCHANGED <<vault, request, pc, item, outcome, document>>

ScanMatch ==
    /\ pc = "by_name" /\ next <= Len(vault)
    /\ Matches(next)
    /\ ~vault[next].organization_id
    /\ name_match = None
    /\ name_match' = next
    /\ next' = next + 1
    /\ UNCHANGED <<vault, request, pc, item, outcome, document>>

ScanFound ==
    /\ pc = "by_name" /\ next > Len(vault)
    /\ name_match # None
    /\ item' = name_match
    /\ pc' = "screen"
    /\ UNCHANGED <<vault, request, next, name_match, outcome, document>>

ScanNotFound ==
    /\ pc = "by_name" /\ next > Len(vault)
    /\ name_match = None
    /\ Finish("not_found")
    /\ UNCHANGED <<vault, request, next, name_match, item, document>>

\* resolve_with_cached_sync looks at the organization once more.
Screen ==
    /\ pc = "screen"
    /\ IF vault[item].organization_id
       THEN Finish("unsupported_shared_item")
       ELSE pc' = "extract" /\ UNCHANGED outcome
    /\ UNCHANGED <<vault, request, next, name_match, item, document>>

ExtractAttachment ==
    /\ pc = "extract"
    /\ request.property \in Attachments
    /\ Finish("unsupported_attachment")
    /\ UNCHANGED <<vault, request, next, name_match, item, document>>

ExtractOne ==
    /\ pc = "extract"
    /\ request.property # None /\ request.property \notin Attachments
    /\ LET value == ExtractProperty(vault[item], request.property) IN
       IF value = None
       THEN Finish("missing_property") /\ UNCHANGED document
       ELSE /\ Finish("ok")
            /\ document' = PropertyDocument(request.property, value)
    /\ UNCHANGED <<vault, request, next, name_match, item>>

\* Mutant: an item without extractable fields gives an empty document.
ExtractWholeEmpty ==
    /\ pc = "extract"
    /\ request.property = None
    /\ Finish("ok")
    /\ document' = ToSecretDocument(vault[item])
    /\ UNCHANGED <<vault, request, next, name_match, item>>

ExtractWhole ==
    /\ pc = "extract"
    /\ request.property = None
    /\ LET data == ToSecretDocument(vault[item]) IN
       IF DOMAIN data = {}
       THEN Finish("no_extractable_fields") /\ UNCHANGED document
       ELSE Finish("ok") /\ document' = data
    /\ UNCHANGED <<vault, request, next, name_match, item>>

Done == pc = "done" /\ UNCHANGED vars

Next ==
    \/ RejectSelector \/ AcceptSelector
    \/ ResolveById
    \/ ScanSkip \/ ScanShared \/ ScanAmbiguous \/ ScanMatch
    \/ ScanFound \/ ScanNotFound
    \/ Screen
    \/ ExtractAttachment \/ ExtractOne \/ ExtractWhole
    \/ Done

Spec == Init /\ [][Next]_vars
-----------------------------------------------------------------------------
(* Properties.                                                              *)

\* Type correctness of the lookup's own state.
TypeOK ==
    /\ pc \in {"try_from", "by_id", "by_name", "screen", "extract", "done"}
    /\ next \in 1 .. Len(vault) + 1
    /\ name_match \in (1 .. Len(vault)) \cup {None}
    /\ item \in (1 .. Len(vault)) \cup {None}
    /\ outcome \in Outcomes \cup {None}
    /\ (pc = "done") <=> (outcome # None)
    /\ (outcome = "ok") <=> (document # NoDocument)

\* The ciphers the name selector denotes, whatever their order in the vault.
Matching == {i \in 1 .. Len(vault) : Matches(i)}

SelectedByName == request.key.scheme = "name" /\ SelectorError = None

\* The early-exit loop computes an order-independent answer: an item is
\* returned exactly when it is the only decryptable one of that name and is
\* personal, not_found means there is none, and the two other errors are
\* justified by the vault.
NameLookupCorrect ==
    SelectedByName /\ pc \in {"screen", "extract", "done"} =>
        /\ item # None =>
              Matching = {item} /\ ~vault[item].organization_id
        /\ item = None =>
              \/ outcome = "not_found" /\ Matching = {}
              \/ /\ outcome = "ambiguous_selector"
                 /\ \E i, j \in Matching : i # j
              \/ /\ outcome = "unsupported_shared_item"
                 /\ \E i \in Matching : vault[i].organization_id

\* An id selector of a shared item is reported as such, decryptable or not,
\* and no lookup ever hands a shared or an undecryptable item to extraction.
SharedNeverExtracted ==
    /\ pc = "extract" =>
          Decrypts(vault[item]) /\ ~vault[item].organization_id
    /\ /\ pc = "done" /\ request.key.scheme = "id" /\ SelectorError = None
       /\ WithId # {} /\ vault[FindCipherById].organization_id
       => outcome = "unsupported_shared_item"

FieldsNamed(c, name) ==
    {i \in 1 .. Len(c.fields) : Plain(c.fields[i].name) = name}

\* Asking for the whole item and asking for one property agree wherever names
\* do not collide: each entry of the document is what the single-property
\* request for it returns, and no slot that has a value is left out.
WholeItemAgrees ==
    outcome = "ok" /\ request.property = None =>
        LET c == vault[item] IN
        /\ \A k \in DOMAIN document : document[k] # None
        /\ \A k \in DOMAIN document \ DocumentSlots :
              (\A i, j \in FieldsNamed(c, k) : i = j) =>
                  document[k] = CustomValue(c, k)
        /\ \A s \in DocumentSlots :
              FieldsNamed(c, s) = {} =>
                  IF c.slots[s] = None
                  THEN s \notin DOMAIN document
                  ELSE s \in DOMAIN document
                          /\ document[s] = ExtractProperty(c, s)

\* README.md: "Shared organization items fail explicitly with
\* `unsupported_shared_item`": a name that only a shared item carries is not
\* answered with not_found.
SharedItemsReported ==
    outcome = "not_found" /\ SelectedByName =>
        ~\E i \in 1 .. Len(vault) :
            /\ vault[i].organization_id
            /\ vault[i].slots["name"] \notin {None, Malformed}
            /\ NameOf(vault[i]) = request.key.value

\* docs/install/eso-webhook.md: "Whole-item extraction exposes every
\* extractable conventional field and custom field on the selected item".
WholeItemKeepsConventional ==
    outcome = "ok" /\ request.property = None =>
        \A s \in DocumentSlots :
            vault[item].slots[s] # None =>
                document[s] = Plain(vault[item].slots[s])
=============================================================================
