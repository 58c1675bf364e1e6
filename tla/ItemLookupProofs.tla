--------------------------- MODULE ItemLookupProofs ---------------------------
(***************************************************************************)
(* Proofs about ItemLookup, for vaults of any length and any mixture of     *)
(* personal, shared, damaged and duplicate items.  The name lookup is a     *)
(* loop with three early exits; ScanInv is its loop invariant: the matches  *)
(* among the ciphers already seen are exactly name_match.                   *)
(***************************************************************************)
EXTENDS ItemLookup, NaturalsInduction, WellFoundedInduction, TLAPS

\* The vault does not change, so its length stays a number.
VaultInv == vault \in Vaults /\ Len(vault) \in Nat

\* Which lookup runs is decided by the selector, before anything is found.
PhaseInv ==
    /\ pc \in {"try_from", "by_id", "by_name"} => item = None /\ outcome = None
    /\ pc = "try_from" => next = 1 /\ name_match = None
    /\ pc # "try_from" /\ pc # "done" => SelectorError = None
    /\ pc = "by_id" => request.key.scheme = "id"
    /\ pc = "by_name" => request.key.scheme # "id"

\* The loop invariant of resolve_synced_cipher_by_name.
ScanInv ==
    pc = "by_name" =>
        /\ next \in 1 .. Len(vault) + 1
        /\ \A i \in 1 .. next - 1 : Matches(i) => i = name_match
        /\ name_match # None =>
              /\ name_match \in 1 .. next - 1
              /\ Matches(name_match)
              /\ ~vault[name_match].organization_id

\* What both lookups hand over is decryptable and personal.
FoundInv ==
    pc \in {"screen", "extract"} =>
        /\ item # None
        /\ Decrypts(vault[item])
        /\ ~vault[item].organization_id
        /\ request.key.scheme = "id" => item = FindCipherById

Inv ==
    /\ VaultInv
    /\ PhaseInv
    /\ ScanInv
    /\ FoundInv
    /\ NameLookupCorrect
    /\ SharedNeverExtracted

\* A set of naturals has a least element.
LEMMA LeastOf ==
    ASSUME NEW T, T \subseteq Nat, T # {}
    PROVE  \E m \in T : \A k \in T : m <= k
<1> DEFINE R == OpToRel(<, Nat)
<1>1. \E m \in T : \A k \in T : <<k, m>> \notin R
  <2>1. IsWellFoundedOn(R, Nat)
    BY NatLessThanWellFounded
  <2> HIDE DEF R
  <2> QED  BY <2>1, WFMin
<1>2. \A k, m \in Nat : k < m => <<k, m>> \in R
  BY DEF OpToRel
<1> HIDE DEF R
<1>3. PICK m \in T : \A k \in T : <<k, m>> \notin R
  BY <1>1
<1>4. ASSUME NEW k \in T PROVE m <= k
  <2>1. m \in Nat /\ k \in Nat
    OBVIOUS
  <2>2. ~(k < m)
    BY <1>2, <1>3, <2>1
  <2> QED  BY <2>1, <2>2
<1> QED  BY <1>4

\* find returns one of the ciphers with that id when there are any.
LEMMA FoundById ==
    ASSUME VaultInv, WithId # {}
    PROVE  FindCipherById \in 1 .. Len(vault)
<1>1. WithId \subseteq Nat
  BY DEF WithId, VaultInv
<1>2. \E i \in WithId : \A j \in WithId : i <= j
  BY <1>1, LeastOf
<1>3. FindCipherById \in WithId
  BY <1>2 DEF FindCipherById
<1> QED  BY <1>3 DEF WithId, VaultInv

-----------------------------------------------------------------------------
(* The inductive steps.                                                     *)

\* No step revisits the selector.
LEMMA PhaseStep ==
    ASSUME PhaseInv, [Next]_vars
    PROVE  PhaseInv'
<1> USE DEF PhaseInv, SelectorError, Finish
<1>1. CASE RejectSelector
  BY <1>1 DEF RejectSelector
<1>2. CASE AcceptSelector
  BY <1>2 DEF AcceptSelector
<1>3. CASE ResolveById
  BY <1>3 DEF ResolveById
<1>4. CASE ScanSkip
  BY <1>4 DEF ScanSkip
<1>5. CASE ScanShared
  BY <1>5 DEF ScanShared
<1>6. CASE ScanAmbiguous
  BY <1>6 DEF ScanAmbiguous
<1>7. CASE ScanMatch
  BY <1>7 DEF ScanMatch
<1>8. CASE ScanFound
  BY <1>8 DEF ScanFound
<1>9. CASE ScanNotFound
  BY <1>9 DEF ScanNotFound
<1>10. CASE Screen
  BY <1>10 DEF Screen
<1>11. CASE ExtractAttachment
  BY <1>11 DEF ExtractAttachment
<1>12. CASE ExtractOne
  BY <1>12 DEF ExtractOne
<1>13. CASE ExtractWhole
  BY <1>13 DEF ExtractWhole
<1>14. CASE UNCHANGED vars
  BY <1>14 DEF vars
<1> QED
  BY <1>1, <1>2, <1>3, <1>4, <1>5, <1>6, <1>7, <1>8, <1>9, <1>10, <1>11,
     <1>12, <1>13, <1>14 DEF Next, Done

\* Each iteration of the loop extends the invariant by one cipher.
LEMMA ScanStep ==
    ASSUME VaultInv, PhaseInv, ScanInv, [Next]_vars
    PROVE  ScanInv'
<1> USE DEF ScanInv, VaultInv, Matches, NameOf, Finish
<1>1. CASE RejectSelector
  BY <1>1 DEF RejectSelector
<1>2. CASE AcceptSelector
  BY <1>2 DEF AcceptSelector, PhaseInv
<1>3. CASE ResolveById
  BY <1>3 DEF ResolveById
<1>4. CASE ScanSkip
  BY <1>4 DEF ScanSkip
<1>5. CASE ScanShared
  BY <1>5 DEF ScanShared
<1>6. CASE ScanAmbiguous
  BY <1>6 DEF ScanAmbiguous
<1>7. CASE ScanMatch
  BY <1>7, NoneAssumption DEF ScanMatch
<1>8. CASE ScanFound
  BY <1>8 DEF ScanFound
<1>9. CASE ScanNotFound
  BY <1>9 DEF ScanNotFound
<1>10. CASE Screen
  BY <1>10 DEF Screen
<1>11. CASE ExtractAttachment
  BY <1>11 DEF ExtractAttachment
<1>12. CASE ExtractOne
  BY <1>12 DEF ExtractOne
<1>13. CASE ExtractWhole
  BY <1>13 DEF ExtractWhole
<1>14. CASE UNCHANGED vars
  BY <1>14 DEF vars
<1> QED
  BY <1>1, <1>2, <1>3, <1>4, <1>5, <1>6, <1>7, <1>8, <1>9, <1>10, <1>11,
     <1>12, <1>13, <1>14 DEF Next, Done

\* Both lookups test the organization before they hand an item over.
LEMMA FoundStep ==
    ASSUME VaultInv, PhaseInv, ScanInv, FoundInv, [Next]_vars
    PROVE  FoundInv'
<1>0. WithId # {} => FindCipherById # None
  BY FoundById, NoneAssumption
<1> USE DEF FoundInv, PhaseInv, Finish, FindCipherById, WithId
<1>1. CASE RejectSelector
  BY <1>1 DEF RejectSelector
<1>2. CASE AcceptSelector
  BY <1>2 DEF AcceptSelector
<1>3. CASE ResolveById
  BY <1>0, <1>3 DEF ResolveById
<1>4. CASE ScanSkip
  BY <1>4 DEF ScanSkip
<1>5. CASE ScanShared
  BY <1>5 DEF ScanShared
<1>6. CASE ScanAmbiguous
  BY <1>6 DEF ScanAmbiguous
<1>7. CASE ScanMatch
  BY <1>7 DEF ScanMatch
<1>8. CASE ScanFound
  BY <1>8 DEF ScanFound, ScanInv, Matches
<1>9. CASE ScanNotFound
  BY <1>9 DEF ScanNotFound
<1>10. CASE Screen
  BY <1>10 DEF Screen
<1>11. CASE ExtractAttachment
  BY <1>11 DEF ExtractAttachment
<1>12. CASE ExtractOne
  BY <1>12 DEF ExtractOne
<1>13. CASE ExtractWhole
  BY <1>13 DEF ExtractWhole
<1>14. CASE UNCHANGED vars
  BY <1>14 DEF vars
<1> QED
  BY <1>1, <1>2, <1>3, <1>4, <1>5, <1>6, <1>7, <1>8, <1>9, <1>10, <1>11,
     <1>12, <1>13, <1>14 DEF Next, Done

\* The loop exits with the answer the whole vault justifies.
LEMMA NameStep ==
    ASSUME VaultInv, PhaseInv, ScanInv, FoundInv, NameLookupCorrect, [Next]_vars
    PROVE  NameLookupCorrect'
<1> USE DEF NameLookupCorrect, SelectedByName, Matching, Matches, NameOf, SelectorError,
            PhaseInv, Finish, VaultInv
<1>1. CASE RejectSelector
  BY <1>1 DEF RejectSelector
<1>2. CASE AcceptSelector
  BY <1>2 DEF AcceptSelector
<1>3. CASE ResolveById
  BY <1>3 DEF ResolveById
<1>4. CASE ScanSkip
  BY <1>4 DEF ScanSkip
<1>5. CASE ScanShared
  BY <1>5 DEF ScanShared, ScanInv
<1>6. CASE ScanAmbiguous
  BY <1>6, NoneAssumption DEF ScanAmbiguous, ScanInv
<1>7. CASE ScanMatch
  BY <1>7 DEF ScanMatch
<1>8. CASE ScanFound
  BY <1>8 DEF ScanFound, ScanInv
<1>9. CASE ScanNotFound
  BY <1>9, NoneAssumption DEF ScanNotFound, ScanInv
<1>10. CASE Screen
  BY <1>10 DEF Screen, FoundInv
<1>11. CASE ExtractAttachment
  BY <1>11 DEF ExtractAttachment, FoundInv
<1>12. CASE ExtractOne
  BY <1>12 DEF ExtractOne, FoundInv
<1>13. CASE ExtractWhole
  BY <1>13 DEF ExtractWhole, FoundInv
<1>14. CASE UNCHANGED vars
  BY <1>14 DEF vars
<1> QED
  BY <1>1, <1>2, <1>3, <1>4, <1>5, <1>6, <1>7, <1>8, <1>9, <1>10, <1>11,
     <1>12, <1>13, <1>14 DEF Next, Done

\* A shared item selected by id ends the request with its own error.
LEMMA SharedStep ==
    ASSUME PhaseInv, FoundInv, SharedNeverExtracted, [Next]_vars
    PROVE  SharedNeverExtracted'
<1> USE DEF SharedNeverExtracted, PhaseInv, FoundInv, Finish, SelectorError, WithId,
            FindCipherById
<1>1. CASE RejectSelector
  BY <1>1 DEF RejectSelector
<1>2. CASE AcceptSelector
  BY <1>2 DEF AcceptSelector
<1>3. CASE ResolveById
  BY <1>3 DEF ResolveById
<1>4. CASE ScanSkip
  BY <1>4 DEF ScanSkip
<1>5. CASE ScanShared
  BY <1>5 DEF ScanShared
<1>6. CASE ScanAmbiguous
  BY <1>6 DEF ScanAmbiguous
<1>7. CASE ScanMatch
  BY <1>7 DEF ScanMatch
<1>8. CASE ScanFound
  BY <1>8 DEF ScanFound
<1>9. CASE ScanNotFound
  BY <1>9 DEF ScanNotFound
<1>10. CASE Screen
  BY <1>10 DEF Screen
<1>11. CASE ExtractAttachment
  BY <1>11 DEF ExtractAttachment
<1>12. CASE ExtractOne
  BY <1>12 DEF ExtractOne
<1>13. CASE ExtractWhole
  BY <1>13 DEF ExtractWhole
<1>14. CASE UNCHANGED vars
  BY <1>14 DEF vars
<1> QED
  BY <1>1, <1>2, <1>3, <1>4, <1>5, <1>6, <1>7, <1>8, <1>9, <1>10, <1>11,
     <1>12, <1>13, <1>14 DEF Next, Done

-----------------------------------------------------------------------------
(* The theorems.                                                            *)

\* The invariant holds initially.
LEMMA InvInit == Init => Inv
BY VaultsAssumption
   DEF Init, Inv, VaultInv, PhaseInv, ScanInv, FoundInv, NameLookupCorrect,
       SharedNeverExtracted

\* The vault stays as it was synced.
LEMMA VaultStep ==
    ASSUME VaultInv, [Next]_vars
    PROVE  VaultInv'
BY DEF VaultInv, Next, Done, vars, RejectSelector, AcceptSelector, ResolveById,
       ScanSkip, ScanShared, ScanAmbiguous, ScanMatch, ScanFound,
       ScanNotFound, Screen, ExtractAttachment, ExtractOne, ExtractWhole

\* The invariant holds in every reachable state.
LEMMA Invariance == Spec => []Inv
<1>1. Init => Inv
  BY InvInit
<1>2. Inv /\ [Next]_vars => Inv'
  BY VaultStep, PhaseStep, ScanStep, FoundStep, NameStep, SharedStep DEF Inv
<1> QED  BY <1>1, <1>2, PTL DEF Spec

\* For every vault, the lookup by name returns an item exactly when it is the
\* only decryptable one of that name and personal, in whatever order the
\* server lists the ciphers, and each of its errors is justified.
THEOREM NameLookupIsCorrect == Spec => []NameLookupCorrect
<1>1. Inv => NameLookupCorrect
  BY DEF Inv
<1> QED  BY <1>1, Invariance, PTL

\* No shared or undecryptable item reaches extraction, and an id selector of
\* a shared item is answered with unsupported_shared_item.
THEOREM SharedIsNeverExtracted == Spec => []SharedNeverExtracted
<1>1. Inv => SharedNeverExtracted
  BY DEF Inv
<1> QED  BY <1>1, Invariance, PTL

-----------------------------------------------------------------------------
(* Type correctness.                                                        *)

\* The answer to a single property is not the empty document.
LEMMA SomeDocument ==
    ASSUME NEW property, NEW value
    PROVE  PropertyDocument(property, value) # NoDocument
<1>1. property \in DOMAIN PropertyDocument(property, value)
  BY DEF PropertyDocument
<1>2. DOMAIN NoDocument = {}
  BY DEF NoDocument
<1> QED  BY <1>1, <1>2

\* The scan's position and what it found are places of the vault, a lookup
\* that has ended says how, and only a successful one has a document.
THEOREM TypeCorrect == Spec => []TypeOK
<1>1. Init => TypeOK
  BY VaultsAssumption, NoneAssumption DEF Init, TypeOK, Outcomes
<1>2. ASSUME Inv, TypeOK, [Next]_vars PROVE TypeOK'
  <2> USE <1>2, NoneAssumption DEF TypeOK, Finish
  <2>1. CASE RejectSelector
    <3>1. SelectorError \in Outcomes \ {"ok"}
      BY <2>1 DEF RejectSelector, SelectorError, Outcomes
    <3>2. outcome # "ok" /\ None # "ok"
      BY <2>1 DEF RejectSelector, Outcomes
    <3> QED  BY <2>1, <3>1, <3>2 DEF RejectSelector
  <2>2. CASE AcceptSelector
    BY <2>2 DEF AcceptSelector
  <2>3. CASE ResolveById
    BY <2>3, FoundById DEF ResolveById, Inv, Outcomes
  <2>4. CASE ScanSkip
    BY <2>4 DEF ScanSkip, Inv, VaultInv
  <2>5. CASE ScanShared
    BY <2>5 DEF ScanShared, Outcomes
  <2>6. CASE ScanAmbiguous
    BY <2>6 DEF ScanAmbiguous, Outcomes
  <2>7. CASE ScanMatch
    BY <2>7 DEF ScanMatch, Inv, VaultInv
  <2>8. CASE ScanFound
    BY <2>8 DEF ScanFound
  <2>9. CASE ScanNotFound
    BY <2>9 DEF ScanNotFound, Outcomes
  <2>10. CASE Screen
    BY <2>10 DEF Screen, Outcomes
  <2>11. CASE ExtractAttachment
    BY <2>11 DEF ExtractAttachment, Outcomes
  <2>12. CASE ExtractOne
    BY <2>12, SomeDocument DEF ExtractOne, Outcomes
  <2>13. CASE ExtractWhole
    BY <2>13 DEF ExtractWhole, Outcomes, NoDocument
  <2>14. CASE UNCHANGED vars
    BY <2>14 DEF vars
  <2> QED
    BY <2>1, <2>2, <2>3, <2>4, <2>5, <2>6, <2>7, <2>8, <2>9, <2>10, <2>11,
       <2>12, <2>13, <2>14 DEF Next, Done
<1> QED  BY <1>1, <1>2, Invariance, PTL DEF Spec

-----------------------------------------------------------------------------
(* The whole item.  The loop over the custom fields is a recursive          *)
(* function; a least field number at which it would fail to be defined, or  *)
(* at which its invariant would fail, leads to a contradiction.             *)

\* f is what the loop over the first n fields computes.
Loop(c, f, n) ==
    f = [i \in 0 .. n |-> IF i = 0 THEN ConventionalDocument(c)
                          ELSE InsertField(f[i - 1], c.fields[i])]

\* The loop can be run for any number of fields.
LEMMA LoopExists ==
    ASSUME NEW c, NEW n \in Nat
    PROVE  \E f : Loop(c, f, n)
<1> DEFINE T == {k \in Nat : ~\E f : Loop(c, f, k)}
<1>1. SUFFICES ASSUME T # {} PROVE FALSE
  OBVIOUS
<1>2. T \subseteq Nat
  OBVIOUS
<1>3. PICK m \in T : \A k \in T : m <= k
  BY <1>1, <1>2, LeastOf
<1>4. m \in Nat /\ ~\E f : Loop(c, f, m)
  BY <1>3
<1>5. m # 0
  <2> DEFINE f == [i \in 0 .. 0 |-> ConventionalDocument(c)]
  <2>1. f = [i \in 0 .. 0 |-> IF i = 0 THEN ConventionalDocument(c)
                              ELSE InsertField(f[i - 1], c.fields[i])]
    BY SMT
  <2>2. Loop(c, f, 0)
    BY <2>1 DEF Loop
  <2> QED  BY <2>2, <1>4
<1>6. m - 1 \in Nat /\ m - 1 \notin T
  BY <1>3, <1>4, <1>5
<1>7. PICK g : Loop(c, g, m - 1)
  BY <1>6
<1> DEFINE f == [i \in 0 .. m |-> IF i = m
                                  THEN InsertField(g[m - 1], c.fields[m])
                                  ELSE g[i]]
<1>8. g = [i \in 0 .. m - 1 |-> IF i = 0 THEN ConventionalDocument(c)
                                ELSE InsertField(g[i - 1], c.fields[i])]
  BY <1>7 DEF Loop
<1>9. ASSUME NEW i \in 0 .. m
      PROVE  f[i] = IF i = 0 THEN ConventionalDocument(c)
                    ELSE InsertField(f[i - 1], c.fields[i])
  <2>1. CASE i = m
    <3>1. f[i] = InsertField(g[m - 1], c.fields[m]) /\ i # 0
      BY <2>1, <1>5
    <3>2. f[m - 1] = g[m - 1]
      BY <1>6, <1>4
    <3> HIDE DEF f
    <3> QED  BY <3>1, <3>2, <2>1
  <2>2. CASE i # m /\ i = 0
    <3>1. f[i] = g[i]
      BY <2>2
    <3>2. g[i] = ConventionalDocument(c)
      BY <1>4, <1>8, <2>2
    <3> HIDE DEF f
    <3> QED  BY <3>1, <3>2, <2>2
  <2>3. CASE i # m /\ i # 0
    <3>1. i \in 0 .. m - 1 /\ i - 1 \in 0 .. m - 1 /\ i - 1 # m
      BY <1>4, <2>3
    <3>2. f[i] = g[i] /\ f[i - 1] = g[i - 1]
      BY <3>1, <2>3, <1>4
    <3>3. g[i] = InsertField(g[i - 1], c.fields[i])
      BY <1>8, <3>1, <2>3
    <3> HIDE DEF f
    <3> QED  BY <3>2, <3>3, <2>3
  <2> QED  BY <2>1, <2>2, <2>3
<1>10. f = [i \in 0 .. m |-> IF i = 0 THEN ConventionalDocument(c)
                             ELSE InsertField(f[i - 1], c.fields[i])]
  <2>1. f = [i \in 0 .. m |-> f[i]]
    OBVIOUS
  <2> HIDE DEF f
  <2> QED  BY <2>1, <1>9
<1>11. Loop(c, f, m)
  BY <1>10 DEF Loop
<1> QED  BY <1>11, <1>4

\* So Inserted is what the loop computes.
LEMMA LoopRuns ==
    ASSUME NEW c, Len(c.fields) \in Nat
    PROVE  Loop(c, Inserted(c), Len(c.fields))
<1>1. \E f : f = [i \in 0 .. Len(c.fields) |->
                    IF i = 0 THEN ConventionalDocument(c)
                    ELSE InsertField(f[i - 1], c.fields[i])]
  BY LoopExists DEF Loop
<1> QED  BY <1>1 DEF Loop, Inserted

\* The j-th field has a value and puts it under k.
Writes(c, j, k) == Plain(c.fields[j].name) = k /\ c.fields[j].value # None

\* The loop invariant after i fields: no entry of a slot is dropped, and each
\* entry is that of its slot or of a field that has been looked at.
LoopInv(c, doc, i) ==
    /\ DOMAIN ConventionalDocument(c) \subseteq DOMAIN doc
    /\ \A k \in DOMAIN doc :
          \/ k \in DOMAIN ConventionalDocument(c) /\ doc[k] = Plain(c.slots[k])
          \/ \E j \in 1 .. i :
                Writes(c, j, k) /\ doc[k] = Plain(c.fields[j].value)

\* One iteration keeps it.
LEMMA LoopStep ==
    ASSUME NEW c, NEW doc, NEW i \in Nat, i # 0, LoopInv(c, doc, i - 1)
    PROVE  LoopInv(c, InsertField(doc, c.fields[i]), i)
<1> DEFINE name == Plain(c.fields[i].name)
           value == Plain(c.fields[i].value)
<1>1. CASE name \in {None, Blank} \/ c.fields[i].value = None
  <2>1. InsertField(doc, c.fields[i]) = doc
    BY <1>1 DEF InsertField
  <2>2. 1 .. i - 1 \subseteq 1 .. i
    OBVIOUS
  <2> QED  BY <2>1, <2>2 DEF LoopInv
<1>2. CASE ~(name \in {None, Blank} \/ c.fields[i].value = None)
  <2>1. InsertField(doc, c.fields[i]) = Put(doc, name, value)
    BY <1>2 DEF InsertField
  <2>2. /\ DOMAIN Put(doc, name, value) = DOMAIN doc \cup {name}
        /\ \A k \in DOMAIN doc \cup {name} :
              Put(doc, name, value)[k] = IF k = name THEN value ELSE doc[k]
    BY DEF Put
  <2>3. Writes(c, i, name)
    BY <1>2 DEF Writes
  <2>4. i \in 1 .. i /\ 1 .. i - 1 \subseteq 1 .. i
    OBVIOUS
  <2>5. ASSUME NEW k \in DOMAIN doc \cup {name}
        PROVE  \/ /\ k \in DOMAIN ConventionalDocument(c)
                  /\ Put(doc, name, value)[k] = Plain(c.slots[k])
               \/ \E j \in 1 .. i :
                     /\ Writes(c, j, k)
                     /\ Put(doc, name, value)[k] = Plain(c.fields[j].value)
    <3>1. CASE k = name
      BY <2>2, <2>3, <2>4, <3>1
    <3>2. CASE k # name
      <4>1. k \in DOMAIN doc /\ Put(doc, name, value)[k] = doc[k]
        BY <2>2, <3>2
      <4> HIDE DEF name, value
      <4> QED  BY <4>1, <2>4 DEF LoopInv
    <3> QED  BY <3>1, <3>2
  <2>6. DOMAIN ConventionalDocument(c) \subseteq DOMAIN doc
    BY DEF LoopInv
  <2> HIDE DEF name, value
  <2> QED  BY <2>1, <2>2, <2>5, <2>6 DEF LoopInv
<1> QED  BY <1>1, <1>2

\* So it holds of the finished document.
LEMMA LoopEnds ==
    ASSUME NEW c, Len(c.fields) \in Nat
    PROVE  LoopInv(c, ToSecretDocument(c), Len(c.fields))
<1> DEFINE n == Len(c.fields)
           f == Inserted(c)
           T == {k \in Nat : k <= n /\ ~LoopInv(c, f[k], k)}
<1>0. f = [i \in 0 .. n |-> IF i = 0 THEN ConventionalDocument(c)
                            ELSE InsertField(f[i - 1], c.fields[i])]
  BY LoopRuns DEF Loop
<1> HIDE DEF f
<1>1. ASSUME T # {} PROVE FALSE
  <2>1. T \subseteq Nat
    OBVIOUS
  <2>2. PICK m \in T : \A k \in T : m <= k
    BY <1>1, <2>1, LeastOf
  <2>3. m \in Nat /\ m <= n /\ n \in Nat /\ ~LoopInv(c, f[m], m)
    BY <2>2
  <2>4. CASE m = 0
    <3>1. f[0] = ConventionalDocument(c)
      BY <1>0, <2>3
    <3>2. LoopInv(c, f[0], 0)
      BY <3>1 DEF LoopInv, ConventionalDocument
    <3> QED  BY <3>2, <2>3, <2>4
  <2>5. CASE m # 0
    <3>1. m - 1 \in Nat /\ m - 1 <= n /\ ~(m <= m - 1)
      BY <2>3, <2>5
    <3>2. LoopInv(c, f[m - 1], m - 1)
      BY <2>2, <3>1
    <3>3. f[m] = InsertField(f[m - 1], c.fields[m])
      BY <1>0, <2>3, <2>5
    <3>4. LoopInv(c, InsertField(f[m - 1], c.fields[m]), m)
      BY <2>3, <2>5, <3>2, LoopStep
    <3> QED  BY <3>3, <3>4, <2>3
  <2> QED  BY <2>4, <2>5
<1>2. n \in Nat /\ n <= n
  OBVIOUS
<1>3. LoopInv(c, f[n], n)
  BY <1>1, <1>2
<1> QED  BY <1>3 DEF ToSecretDocument, f

\* A document slot is asked for under its own name.
LEMMA SlotIsItself ==
    ASSUME NEW s \in DocumentSlots, NEW c
    PROVE  ExtractProperty(c, s) = Plain(c.slots[s])
<1>1. SlotOf(s) = s
  <2>1. \/ s = "notes" \/ s = "username" \/ s = "password" \/ s = "totp"
        \/ s = "privateKey" \/ s = "publicKey" \/ s = "keyFingerprint"
    BY DEF DocumentSlots
  <2> QED  BY <2>1, Zenon DEF SlotOf
<1>2. s # None
  BY NoneAssumption DEF Slots
<1> QED  BY <1>1, <1>2 DEF ExtractProperty

\* A cipher of a vault has as many fields as it says, and what opens has a
\* plaintext.
CipherOK(c) ==
    /\ Len(c.fields) \in Nat
    /\ \A string \in Strings(c) \ {None, Malformed} : string.plain # None

\* The body of WholeItemAgrees, for one cipher and its document.
Agrees(c, doc) ==
    /\ \A k \in DOMAIN doc : doc[k] # None
    /\ \A k \in DOMAIN doc \ DocumentSlots :
          (\A i, j \in FieldsNamed(c, k) : i = j) => doc[k] = CustomValue(c, k)
    /\ \A s \in DocumentSlots :
          FieldsNamed(c, s) = {} =>
              IF c.slots[s] = None
              THEN s \notin DOMAIN doc
              ELSE s \in DOMAIN doc /\ doc[s] = ExtractProperty(c, s)

\* What a decryptable cipher's strings say.
LEMMA Opened ==
    ASSUME NEW c, CipherOK(c), Decrypts(c), NEW string \in Strings(c),
           string # None
    PROVE  Plain(string) # None
BY DEF CipherOK, Decrypts, Opens, Plain

\* A field that is the only one of its name is what a request for it returns.
LEMMA OnlyField ==
    ASSUME NEW c, Len(c.fields) \in Nat, NEW k, NEW j \in FieldsNamed(c, k),
           \A i \in FieldsNamed(c, k) : i = j
    PROVE  CustomValue(c, k) = Plain(c.fields[j].value)
<1>1. FieldsNamed(c, k) = {j} /\ j \in Nat
  BY DEF FieldsNamed
<1>2. (CHOOSE i \in {j} : \A h \in {j} : i <= h) = j
  BY <1>1
<1> QED  BY <1>1, <1>2 DEF CustomValue, FieldsNamed

\* The whole item and its properties agree.
LEMMA DocumentAgrees ==
    ASSUME NEW c, CipherOK(c), Decrypts(c)
    PROVE  Agrees(c, ToSecretDocument(c))
<1>0. PICK doc : doc = ToSecretDocument(c)
  OBVIOUS
<1>1. Len(c.fields) \in Nat
  BY DEF CipherOK
<1>2. LoopInv(c, doc, Len(c.fields))
  BY <1>0, <1>1, LoopEnds
<1>3. DOMAIN ConventionalDocument(c) = {s \in DocumentSlots : c.slots[s] # None}
  BY DEF ConventionalDocument
<1>4. ASSUME NEW s \in DocumentSlots, c.slots[s] # None
      PROVE  Plain(c.slots[s]) # None
  <2>1. c.slots[s] \in Strings(c)
    BY DEF Strings, SlotStrings, Slots
  <2> QED  BY <1>4, <2>1, Opened
<1>5. ASSUME NEW j \in 1 .. Len(c.fields), c.fields[j].value # None
      PROVE  Plain(c.fields[j].value) # None
  <2>1. c.fields[j].value \in Strings(c)
    BY DEF Strings, FieldStrings
  <2> QED  BY <1>5, <2>1, Opened
<1>6. \A k : \A j \in 1 .. Len(c.fields) :
         Writes(c, j, k) => j \in FieldsNamed(c, k)
  BY DEF Writes, FieldsNamed
<1>7. ASSUME NEW k \in DOMAIN doc PROVE doc[k] # None
  <2>1. CASE /\ k \in DOMAIN ConventionalDocument(c)
             /\ doc[k] = Plain(c.slots[k])
    BY <1>3, <1>4, <2>1
  <2>2. CASE \E j \in 1 .. Len(c.fields) :
                Writes(c, j, k) /\ doc[k] = Plain(c.fields[j].value)
    BY <1>5, <2>2 DEF Writes
  <2> QED  BY <1>2, <2>1, <2>2 DEF LoopInv
<1>8. ASSUME NEW k \in DOMAIN doc \ DocumentSlots,
             \A i, j \in FieldsNamed(c, k) : i = j
      PROVE  doc[k] = CustomValue(c, k)
  <2>1. k \notin DOMAIN ConventionalDocument(c)
    BY <1>3
  <2>2. PICK j \in 1 .. Len(c.fields) :
           Writes(c, j, k) /\ doc[k] = Plain(c.fields[j].value)
    BY <1>2, <2>1 DEF LoopInv
  <2>3. j \in FieldsNamed(c, k)
    BY <1>6, <2>2
  <2>4. CustomValue(c, k) = Plain(c.fields[j].value)
    BY <1>1, <1>8, <2>3, OnlyField
  <2> QED  BY <2>2, <2>4
<1>9. ASSUME NEW s \in DocumentSlots, FieldsNamed(c, s) = {}
      PROVE  IF c.slots[s] = None
             THEN s \notin DOMAIN doc
             ELSE s \in DOMAIN doc /\ doc[s] = ExtractProperty(c, s)
  <2>1. ExtractProperty(c, s) = Plain(c.slots[s])
    BY SlotIsItself
  <2>2. \A j \in 1 .. Len(c.fields) : ~Writes(c, j, s)
    BY <1>6, <1>9
  <2>3. s \in DOMAIN doc =>
          s \in DOMAIN ConventionalDocument(c) /\ doc[s] = Plain(c.slots[s])
    BY <1>2, <2>2 DEF LoopInv
  <2>4. s \in DOMAIN ConventionalDocument(c) <=> c.slots[s] # None
    BY <1>3
  <2>5. s \in DOMAIN ConventionalDocument(c) => s \in DOMAIN doc
    BY <1>2 DEF LoopInv
  <2> QED  BY <2>1, <2>3, <2>4, <2>5
<1>10. Agrees(c, doc)
  BY <1>7, <1>8, <1>9 DEF Agrees
<1> QED  BY <1>0, <1>10

\* For every vault and every number of custom fields, the whole item says of
\* each property what a request for that property would say, wherever names
\* do not collide.
THEOREM WholeAgreesWithParts == Spec => []WholeItemAgrees
<1> DEFINE Whole == outcome = "ok" /\ request.property = None =>
                      Agrees(vault[item], document)
<1>0. None # "ok"
  BY NoneAssumption DEF Outcomes
<1>1. Init => Whole
  BY <1>0 DEF Init
<1>2. ASSUME Inv, TypeOK, Whole, [Next]_vars PROVE Whole'
  <2> USE <1>2 DEF Finish
  <2>1. pc # "done" => outcome # "ok"
    BY <1>0 DEF TypeOK
  <2>2. CASE RejectSelector
    <3>1. SelectorError # "ok"
      BY <1>0, Zenon DEF SelectorError
    <3> QED  BY <2>2, <3>1 DEF RejectSelector
  <2>3. CASE ExtractWhole
    <3>1. FoundInv /\ pc = "extract"
      BY <2>3 DEF Inv, ExtractWhole
    <3>2. item \in 1 .. Len(vault)
      BY <3>1 DEF TypeOK, FoundInv
    <3>3. CipherOK(vault[item]) /\ Decrypts(vault[item])
      BY <3>1, <3>2, VaultsAssumption DEF FoundInv, CipherOK, Inv, VaultInv
    <3> QED  BY <2>3, <3>3, DocumentAgrees DEF ExtractWhole
  <2>4. CASE ExtractOne
    BY <2>4 DEF ExtractOne
  <2>5. CASE AcceptSelector \/ ResolveById \/ ScanSkip \/ ScanShared
    BY <2>1, <2>5 DEF AcceptSelector, ResolveById, ScanSkip, ScanShared
  <2>6. CASE ScanAmbiguous \/ ScanMatch \/ ScanFound \/ ScanNotFound
    BY <2>1, <2>6 DEF ScanAmbiguous, ScanMatch, ScanFound, ScanNotFound
  <2>7. CASE Screen \/ ExtractAttachment
    BY <2>1, <2>7 DEF Screen, ExtractAttachment
  <2>8. CASE UNCHANGED vars
    BY <2>8 DEF vars
  <2> QED  BY <2>2, <2>3, <2>4, <2>5, <2>6, <2>7, <2>8 DEF Next, Done
<1>3. Whole => WholeItemAgrees
  BY DEF WholeItemAgrees, Agrees
<1> QED  BY <1>1, <1>2, <1>3, Invariance, TypeCorrect, PTL DEF Spec
=============================================================================
