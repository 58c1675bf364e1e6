----------------------------- MODULE UnlockProofs -----------------------------
(***************************************************************************)
(* Proofs about Unlock, for every set of responses, passwords and salts.    *)
(* The invariant says which checks each stage has behind it: Has...  sums   *)
(* up the checks passed so far, and a returned error is false of them.      *)
(***************************************************************************)
EXTENDS Unlock, TLAPS

\* None is not a result.
LEMMA NoneIsNoResult == \A e \in Errors \cup {"Ok"} : e # None
  BY NoneAssumption

\* Some of the results, one by one.
LEMMA NoneDistinct ==
    /\ None # "Ok" /\ None # "Argon2Failed" /\ None # "DecryptFailed"
    /\ None # "InvalidKeyLength" /\ None # "InvalidArgon2Parameters"
    /\ None # "UnsupportedKdfType" /\ None # "MissingKdfParameter"
  BY NoneIsNoResult DEF Errors, ApiErrors, KeyErrors, CryptoErrors

\* The two views of the limits agree: every parameter of a configuration, and
\* the ones validate_for_prelogin goes through.
LEMMA LimitsLemma ==
    ASSUME NEW k \in KdfConfig
    PROVE  WithinLimits(k) <=>
             \A i \in DOMAIN Parameters(k) : InBounds(k, Parameters(k)[i])
<1>1. CASE k \in [type : {"Pbkdf2Sha256"}, pbkdf2_iterations : Nat]
  <2>1. DOMAIN Minimum \cap DOMAIN k = {"pbkdf2_iterations"}
    BY <1>1 DEF Minimum
  <2>2. Parameters(k) = <<"pbkdf2_iterations">>
    BY <1>1 DEF Parameters
  <2> QED BY <2>1, <2>2 DEF WithinLimits, InBounds
<1>2. CASE k \in [type : {"Argon2id"}, argon2_iterations : Nat,
                  argon2_memory_mib : Nat, argon2_parallelism : Nat]
  <2>1. DOMAIN Minimum \cap DOMAIN k =
          {"argon2_iterations", "argon2_memory_mib", "argon2_parallelism"}
    BY <1>2 DEF Minimum
  <2>2. Parameters(k) = <<"argon2_iterations", "argon2_memory_mib",
                          "argon2_parallelism">>
    BY <1>2 DEF Parameters
  <2>3. WithinLimits(k) <=> /\ InBounds(k, "argon2_iterations")
                            /\ InBounds(k, "argon2_memory_mib")
                            /\ InBounds(k, "argon2_parallelism")
    BY <2>1 DEF WithinLimits, InBounds
  <2>4. (\A i \in DOMAIN Parameters(k) : InBounds(k, Parameters(k)[i]))
          <=> /\ InBounds(k, "argon2_iterations")
              /\ InBounds(k, "argon2_memory_mib")
              /\ InBounds(k, "argon2_parallelism")
    <3>1. DOMAIN Parameters(k) = {1, 2, 3}
      BY <2>2
    <3>2. /\ Parameters(k)[1] = "argon2_iterations"
          /\ Parameters(k)[2] = "argon2_memory_mib"
          /\ Parameters(k)[3] = "argon2_parallelism"
      BY <2>2
    <3> QED BY <3>1, <3>2
  <2> QED BY <2>3, <2>4
<1> QED BY <1>1, <1>2 DEF KdfConfig

\* The limits keep Argon2 away from its own.
LEMMA Argon2Lemma ==
    ASSUME NEW k \in KdfConfig, WithinLimits(k), k.type = "Argon2id"
    PROVE  Argon2ParamsValid(k)
<1>1. /\ DOMAIN k = {"type", "argon2_iterations", "argon2_memory_mib",
                     "argon2_parallelism"}
      /\ k.argon2_iterations \in Nat
      /\ k.argon2_memory_mib \in Nat
      /\ k.argon2_parallelism \in Nat
  BY DEF KdfConfig
<1>2. /\ k.argon2_iterations >= 2
      /\ k.argon2_memory_mib >= 16 /\ k.argon2_memory_mib <= 1024
      /\ k.argon2_parallelism >= 1 /\ k.argon2_parallelism <= 16
  BY <1>1 DEF WithinLimits, Minimum, Maximum
<1>3. 2^22 - 1 >= 1024
  OBVIOUS
<1> QED BY <1>1, <1>2, <1>3 DEF Argon2ParamsValid

FormatErrors ==
    {"LegacyNoMacDisabled", "InvalidEncryptionTypeHeader",
     "UnsupportedEncryptionType", "InvalidPartCount", "InvalidBase64",
     "InvalidIvLength", "InvalidMacLength", "InvalidCiphertextLength"}

\* from_str accepts the well-formed strings and reports its own errors.
LEMMA FormatLemma ==
    ASSUME NEW s \in EncryptedString
    PROVE  /\ WellFormed(s) <=>
                \A i \in DOMAIN FormatChecks(s) : FormatChecks(s)[i][1]
           /\ \A i \in DOMAIN FormatChecks(s) :
                FormatChecks(s)[i][2] \in FormatErrors
<1> DEFINE F == FormatChecks(s)
<1>1. DOMAIN F = 1 .. 9
  BY DEF FormatChecks
<1>2. /\ F[1][1] = (s.header # "absent")
      /\ F[2][1] = (s.header # "garbage")
      /\ F[3][1] = (s.header # "0")
      /\ F[4][1] = (s.header = "2")
      /\ F[5][1] = (s.parts = 3)
      /\ F[6][1] = (None \notin {s.iv, s.data, s.mac})
      /\ F[7][1] = (s.iv = 16)
      /\ F[8][1] = (s.mac = 32)
      /\ F[9][1] = (s.data # None /\ s.data # 0 /\ s.data % 16 = 0)
  BY DEF FormatChecks
<1>3. /\ F[1][2] \in FormatErrors /\ F[2][2] \in FormatErrors
      /\ F[3][2] \in FormatErrors /\ F[4][2] \in FormatErrors
      /\ F[5][2] \in FormatErrors /\ F[6][2] \in FormatErrors
      /\ F[7][2] \in FormatErrors /\ F[8][2] \in FormatErrors
      /\ F[9][2] \in FormatErrors
  BY DEF FormatChecks, FormatErrors
<1> HIDE DEF F
<1>4. s.data \in Nat \cup {None}
  BY DEF EncryptedString
<1>5. (\A i \in DOMAIN F : F[i][1]) <=>
        /\ F[1][1] /\ F[2][1] /\ F[3][1] /\ F[4][1] /\ F[5][1]
        /\ F[6][1] /\ F[7][1] /\ F[8][1] /\ F[9][1]
  BY <1>1
<1>6. WellFormed(s) <=> \A i \in DOMAIN F : F[i][1]
  <2>1. ASSUME WellFormed(s) PROVE \A i \in DOMAIN F : F[i][1]
    <3>1. /\ s.header = "2" /\ s.parts = 3 /\ s.iv = 16 /\ s.mac = 32
          /\ s.data # 0 /\ s.data \in Nat /\ s.data % 16 = 0
      BY <2>1 DEF WellFormed
    <3>2. s.data # None /\ s.iv # None /\ s.mac # None
      BY <3>1, NoneAssumption
    <3>3. F[1][1] /\ F[2][1] /\ F[3][1] /\ F[4][1] /\ F[5][1]
      BY <1>2, <3>1
    <3>4. F[6][1]
      BY <1>2, <3>2
    <3>5. F[7][1] /\ F[8][1]
      BY <1>2, <3>1
    <3>6. F[9][1]
      BY <1>2, <3>1, <3>2
    <3> QED BY <1>5, <3>3, <3>4, <3>5, <3>6
  <2>2. ASSUME \A i \in DOMAIN F : F[i][1] PROVE WellFormed(s)
    <3>1. F[4][1] /\ F[5][1] /\ F[7][1] /\ F[8][1] /\ F[9][1]
      BY <1>5, <2>2
    <3>2. s.header = "2" /\ s.parts = 3 /\ s.iv = 16 /\ s.mac = 32
      BY <1>2, <3>1
    <3>3. s.data # None /\ s.data # 0 /\ s.data % 16 = 0
      BY <1>2, <3>1
    <3> QED BY <1>4, <3>2, <3>3 DEF WellFormed
  <2> QED BY <2>1, <2>2
<1>7. \A i \in DOMAIN F : F[i][2] \in FormatErrors
  BY <1>1, <1>3
<1> QED BY <1>6, <1>7 DEF F

-----------------------------------------------------------------------------
(* The invariant.                                                           *)

HasKey ==
    /\ response.master_password_unlock
    /\ wrapped = WrappedUserKey(response)
    /\ wrapped # None

HasKdf ==
    /\ HasKey
    /\ KdfPartsError(response.kdf) = None
    /\ kdf = KdfFromParts(response.kdf)

HasLimits == HasKdf /\ password # EmptyPassword /\ WithinLimits(kdf)

ExpectedKey ==
    [password |-> password, kdf |-> KdfFromParts(response.kdf),
     salt |-> [account |-> response.salt.account, decorated |-> FALSE]]

HasMaster ==
    /\ HasLimits
    /\ Derivable
    /\ master_key = ExpectedKey
    /\ master_key # None

\* What holds at each stage of unlock_session.
StageInv ==
    /\ pc \notin {"parse", "mac", "decrypt", "done"} => master_key = None
    /\ pc = "wrapped_key" => response.master_password_unlock
    /\ pc = "kdf" => HasKey
    /\ pc = "password" => HasKdf
    /\ pc = "bounds" => HasKdf /\ password # EmptyPassword
    /\ pc = "derive" => HasLimits
    /\ pc \in {"parse", "mac", "decrypt"} => HasMaster
    /\ pc \in {"mac", "decrypt"} => WellFormed(wrapped)
    /\ pc = "decrypt" => wrapped.key = master_key

\* What a result of unlock_session says.
ResultInv ==
    /\ pc # "done" => result = None
    /\ result = "Argon2Failed" => WithinLimits(kdf)
    /\ result \in {"DecryptFailed", "InvalidKeyLength", "Ok"} =>
          HasMaster /\ wrapped.key = master_key
    /\ pc = "done" => (result = "Ok" <=> Unlockable(response, password))

Inv ==
    /\ response \in Responses /\ password \in Passwords
    /\ op \in {"prelogin", "unlock_session"}
    /\ op = "prelogin" => /\ pc \in {"kdf", "done"}
                          /\ master_key = None
                          /\ result \in {None, "Ok", "UnsupportedKdfType",
                                         "MissingKdfParameter"}
    /\ op = "unlock_session" => StageInv /\ ResultInv
    /\ master_key # None => WithinLimits(kdf)
    /\ result # "InvalidArgon2Parameters"

\* A response whose numbers kdf_from_parts accepts gives a configuration.
LEMMA KdfLemma ==
    ASSUME NEW r \in Responses, KdfPartsError(r.kdf) = None
    PROVE  /\ KdfFromParts(r.kdf) \in KdfConfig
           /\ \/ /\ r.kdf.kdf_type = 0
                 /\ KdfFromParts(r.kdf).type = "Pbkdf2Sha256"
              \/ /\ r.kdf.kdf_type = 1
                 /\ r.kdf.memory # None /\ r.kdf.parallelism # None
                 /\ KdfFromParts(r.kdf).type = "Argon2id"
<1>1. r.kdf \in KdfParts
  BY ResponsesAssumption DEF Response
<1>2. /\ r.kdf.iterations \in Nat
      /\ r.kdf.memory \in Nat \cup {None}
      /\ r.kdf.parallelism \in Nat \cup {None}
  BY <1>1 DEF KdfParts
<1>3. \/ r.kdf.kdf_type = 0
      \/ /\ r.kdf.kdf_type = 1
         /\ r.kdf.memory # None /\ r.kdf.parallelism # None
  BY NoneDistinct DEF KdfPartsError
<1>4. CASE r.kdf.kdf_type = 0
  BY <1>2, <1>4 DEF KdfFromParts, KdfConfig
<1>5. CASE /\ r.kdf.kdf_type = 1
           /\ r.kdf.memory # None /\ r.kdf.parallelism # None
  BY <1>2, <1>5 DEF KdfFromParts, KdfConfig
<1> QED BY <1>3, <1>4, <1>5

\* The other way round: Unlockable responses pass the conversion.
LEMMA UnlockableKdf ==
    ASSUME NEW r \in Responses, NEW pw, Unlockable(r, pw)
    PROVE  /\ KdfPartsError(r.kdf) = None
           /\ r.kdf.kdf_type = 1 => SaltBytes[r.salt.account] >= MinSaltBytes
  BY DEF Unlockable, KdfPartsError

LEMMA InitInv == Init => Inv
  BY NoneDistinct DEF Init, Inv, StageInv, ResultInv

LEMMA NextInv == Inv /\ [Next]_vars => Inv'
<1> SUFFICES ASSUME Inv, [Next]_vars PROVE Inv'
  OBVIOUS
<1> USE DEF Fail, inputs
<1>1. CASE MissingUnlock
  BY <1>1, NoneDistinct DEF MissingUnlock, Inv, StageInv, ResultInv,
                              Unlockable
<1>2. CASE HasUnlock
  BY <1>2, NoneDistinct DEF HasUnlock, Inv, StageInv, ResultInv
<1>3. CASE MissingWrappedKey
  BY <1>3, NoneDistinct DEF MissingWrappedKey, Inv, StageInv, ResultInv,
                              Unlockable
<1>4. CASE HasWrappedKey
  BY <1>4, NoneDistinct DEF HasWrappedKey, Inv, StageInv, ResultInv, HasKey
<1>5. CASE RejectKdfParts
  <2>1. ~Unlockable(response, password)
    BY <1>5, UnlockableKdf DEF RejectKdfParts, Inv
  <2>2. result' \in {"UnsupportedKdfType", "MissingKdfParameter"}
    BY <1>5 DEF RejectKdfParts, KdfPartsError
  <2> QED BY <1>5, <2>1, <2>2, NoneDistinct
          DEF RejectKdfParts, Inv, StageInv, ResultInv, Unlockable
<1>6. CASE PreloginReturns
  BY <1>6, NoneDistinct DEF PreloginReturns, Inv
<1>7. CASE AcceptKdfParts
  BY <1>7, NoneDistinct
     DEF AcceptKdfParts, Inv, StageInv, ResultInv, HasKdf, HasKey
<1>8. CASE RejectPassword
  BY <1>8, NoneDistinct DEF RejectPassword, Inv, StageInv, ResultInv,
                              Unlockable
<1>9. CASE AcceptPassword
  BY <1>9, NoneDistinct DEF AcceptPassword, Inv, StageInv, ResultInv,
                              HasKdf, HasKey
<1>10. CASE RejectBounds
  <2>1. HasKdf /\ kdf \in KdfConfig /\ op = "unlock_session"
    BY <1>10, KdfLemma DEF RejectBounds, Inv, StageInv, HasKdf
  <2>2. ~WithinLimits(kdf)
    BY <1>10, <2>1, LimitsLemma DEF RejectBounds
  <2>3. ~Unlockable(response, password)
    BY <2>1, <2>2 DEF Unlockable, HasKdf
  <2>4. result' \in {"KdfDowngrade", "KdfTooExpensive"}
    BY <1>10 DEF RejectBounds
  <2>5. /\ pc' = "done"
        /\ UNCHANGED <<op, response, password, wrapped, kdf, master_key>>
    BY <1>10 DEF RejectBounds
  <2>6. Unlockable(response, password)' = Unlockable(response, password)
    BY <2>5
  <2> QED BY <2>1, <2>3, <2>4, <2>5, <2>6, NoneDistinct
          DEF Inv, StageInv, ResultInv
<1>11. CASE AcceptBounds
  <2>1. HasKdf /\ kdf \in KdfConfig
    BY <1>11, KdfLemma DEF AcceptBounds, Inv, StageInv, HasKdf
  <2>2. WithinLimits(kdf)
    BY <1>11, <2>1, LimitsLemma DEF AcceptBounds
  <2> QED BY <1>11, <2>1, <2>2, NoneDistinct
          DEF AcceptBounds, Inv, StageInv, ResultInv, HasLimits, HasKdf, HasKey
<1>12. CASE DeriveFails
  <2>1. HasLimits /\ kdf \in KdfConfig /\ op = "unlock_session"
    BY <1>12, KdfLemma DEF DeriveFails, Inv, StageInv, HasLimits, HasKdf
  <2>2. kdf.type = "Argon2id" /\ Argon2ParamsValid(kdf)
    BY <1>12, <2>1, Argon2Lemma DEF DeriveFails, Derivable, HasLimits
  <2>3. /\ ~(SaltBytes[response.salt.account] >= MinSaltBytes)
        /\ result' = "Argon2Failed"
    BY <1>12, <2>2 DEF DeriveFails, Derivable
  <2>4. response.kdf.kdf_type = 1
    BY <2>1, <2>2, KdfLemma DEF HasLimits, HasKdf, Inv
  <2>5. ~Unlockable(response, password)
    BY <2>3, <2>4, UnlockableKdf DEF Inv
  <2>6. /\ pc' = "done"
        /\ UNCHANGED <<op, response, password, wrapped, kdf, master_key>>
    BY <1>12 DEF DeriveFails
  <2>7. Unlockable(response, password)' = Unlockable(response, password)
    BY <2>6
  <2> QED BY <2>1, <2>3, <2>5, <2>6, <2>7, NoneDistinct
          DEF Inv, StageInv, ResultInv, HasLimits
<1>13. CASE DeriveMasterKey
  <2>1. HasLimits /\ kdf \in KdfConfig
    BY <1>13, KdfLemma DEF DeriveMasterKey, Inv, StageInv, HasLimits, HasKdf
  <2>2. response.salt \in Salt /\ password \in Passwords
    BY ResponsesAssumption DEF Inv, Response
  <2>3. NormalizeSalt(response.salt)
          = [account |-> response.salt.account, decorated |-> FALSE]
    BY <2>2 DEF NormalizeSalt, Salt
  <2>4. NormalizeSalt(response.salt) \in Salt
    BY <2>2, <2>3 DEF Salt
  <2>5. master_key' = ExpectedKey
    BY <1>13, <2>1, <2>3
       DEF DeriveMasterKey, ExpectedKey, HasLimits, HasKdf
  <2>6. master_key' # None
    <3>1. master_key' = [password |-> password,
                         salt |-> NormalizeSalt(response.salt), kdf |-> kdf]
      BY <1>13 DEF DeriveMasterKey
    <3>2. master_key' \in MasterKey
      BY <2>1, <2>2, <2>4, <3>1 DEF MasterKey
    <3> QED BY <3>2, NoneAssumption
  <2>7. HasMaster'
    BY <1>13, <2>1, <2>5, <2>6
       DEF DeriveMasterKey, HasMaster, HasLimits, HasKdf, HasKey, Derivable,
           ExpectedKey
  <2> QED BY <1>13, <2>1, <2>7, NoneDistinct
          DEF DeriveMasterKey, Inv, StageInv, ResultInv, HasLimits
<1>14. CASE RejectFormat
  <2>1. HasMaster /\ op = "unlock_session"
    BY <1>14 DEF RejectFormat, Inv, StageInv
  <2>2. wrapped \in EncryptedString
    BY <2>1, ResponsesAssumption
       DEF HasMaster, HasLimits, HasKdf, HasKey, WrappedUserKey, Response, Inv
  <2>3. ~WellFormed(wrapped) /\ result' \in FormatErrors
    BY <1>14, <2>2, FormatLemma DEF RejectFormat
  <2>4. ~Unlockable(response, password)
    BY <2>1, <2>3 DEF Unlockable, HasMaster, HasLimits, HasKdf, HasKey
  <2>5. /\ pc' = "done"
        /\ UNCHANGED <<op, response, password, wrapped, kdf, master_key>>
    BY <1>14 DEF RejectFormat
  <2>6. Unlockable(response, password)' = Unlockable(response, password)
    BY <2>5
  <2> QED BY <2>1, <2>3, <2>4, <2>5, <2>6, NoneDistinct
          DEF Inv, StageInv, ResultInv, FormatErrors, HasMaster, HasLimits
<1>15. CASE AcceptFormat
  <2>1. HasMaster
    BY <1>15 DEF AcceptFormat, Inv, StageInv
  <2>2. wrapped \in EncryptedString
    BY <2>1, ResponsesAssumption
       DEF HasMaster, HasLimits, HasKdf, HasKey, WrappedUserKey, Response, Inv
  <2>3. WellFormed(wrapped)
    BY <1>15, <2>2, FormatLemma DEF AcceptFormat
  <2>4. UNCHANGED <<op, response, password, wrapped, kdf, master_key>>
    BY <1>15 DEF AcceptFormat
  <2>5. HasMaster'
    BY <2>1, <2>4 DEF HasMaster, HasLimits, HasKdf, HasKey, Derivable,
                      ExpectedKey
  <2> QED BY <1>15, <2>3, <2>4, <2>5, NoneDistinct
          DEF AcceptFormat, Inv, StageInv, ResultInv
<1>16. CASE RejectMac
  <2>1. HasMaster /\ op = "unlock_session"
    BY <1>16 DEF RejectMac, Inv, StageInv
  <2>2. ~Unlockable(response, password)
    BY <1>16, <2>1 DEF RejectMac, Unlockable, HasMaster, HasLimits, HasKdf,
                       HasKey, ExpectedKey
  <2>3. /\ pc' = "done" /\ result' = "MacVerificationFailed"
        /\ UNCHANGED <<op, response, password, wrapped, kdf, master_key>>
    BY <1>16 DEF RejectMac
  <2>4. Unlockable(response, password)' = Unlockable(response, password)
    BY <2>3
  <2> QED BY <2>1, <2>2, <2>3, <2>4, NoneDistinct
          DEF Inv, StageInv, ResultInv
<1>17. CASE AcceptMac
  <2>1. HasMaster /\ WellFormed(wrapped)
    BY <1>17 DEF AcceptMac, Inv, StageInv
  <2>2. /\ pc' = "decrypt" /\ wrapped.key = master_key
        /\ UNCHANGED <<op, response, password, wrapped, kdf, master_key,
                       result>>
    BY <1>17 DEF AcceptMac
  <2>3. HasMaster'
    BY <2>1, <2>2 DEF HasMaster, HasLimits, HasKdf, HasKey, Derivable,
                      ExpectedKey
  <2> QED BY <1>17, <2>1, <2>2, <2>3, NoneDistinct
          DEF AcceptMac, Inv, StageInv, ResultInv
<1>18. CASE DecryptFails
  <2>1. HasMaster /\ wrapped.key = master_key /\ op = "unlock_session"
    BY <1>18 DEF DecryptFails, Inv, StageInv
  <2>2. ~Unlockable(response, password)
    BY <1>18, <2>1, NoneAssumption
       DEF DecryptFails, Unlockable, HasMaster, HasLimits, HasKdf, HasKey
  <2>3. /\ pc' = "done" /\ result' = "DecryptFailed"
        /\ UNCHANGED <<op, response, password, wrapped, kdf, master_key>>
    BY <1>18 DEF DecryptFails
  <2>4. Unlockable(response, password)' = Unlockable(response, password)
    BY <2>3
  <2>5. HasMaster'
    BY <2>1, <2>3 DEF HasMaster, HasLimits, HasKdf, HasKey, Derivable,
                      ExpectedKey
  <2> QED BY <2>1, <2>2, <2>3, <2>4, <2>5, NoneDistinct
          DEF Inv, StageInv, ResultInv
<1>19. CASE Decrypt
  <2>1. /\ HasMaster /\ wrapped.key = master_key /\ WellFormed(wrapped)
        /\ op = "unlock_session"
    BY <1>19 DEF Decrypt, Inv, StageInv
  <2>2. Unlockable(response, password) <=> wrapped.plain = 64
    <3>1. \/ response.kdf.kdf_type = 0
          \/ /\ response.kdf.kdf_type = 1
             /\ response.kdf.memory # None /\ response.kdf.parallelism # None
             /\ SaltBytes[response.salt.account] >= MinSaltBytes
      BY <2>1, KdfLemma DEF Inv, HasMaster, HasLimits, HasKdf, Derivable
    <3> QED BY <2>1, <3>1 DEF Unlockable, HasMaster, HasLimits, HasKdf,
                              HasKey, ExpectedKey
  <2>3. /\ pc' = "done"
        /\ result' = IF wrapped.plain = 64 THEN "Ok" ELSE "InvalidKeyLength"
        /\ UNCHANGED <<op, response, password, wrapped, kdf, master_key>>
    BY <1>19 DEF Decrypt
  <2>4. Unlockable(response, password)' = Unlockable(response, password)
    BY <2>3
  <2>5. HasMaster'
    BY <2>1, <2>3 DEF HasMaster, HasLimits, HasKdf, HasKey, Derivable,
                      ExpectedKey
  <2> QED BY <2>1, <2>2, <2>3, <2>4, <2>5, NoneDistinct
          DEF Inv, StageInv, ResultInv
<1>20. CASE UNCHANGED vars
  BY <1>20 DEF vars, Inv, StageInv, ResultInv, HasMaster, HasLimits, HasKdf,
               HasKey, Derivable, ExpectedKey
<1> QED
  BY <1>1, <1>2, <1>3, <1>4, <1>5, <1>6, <1>7, <1>8, <1>9, <1>10, <1>11,
     <1>12, <1>13, <1>14, <1>15, <1>16, <1>17, <1>18, <1>19, <1>20
     DEF Next, Returned

\* The invariant holds of every behaviour.
LEMMA InvHolds == Spec => []Inv
  BY InitInv, NextInv, PTL DEF Spec

\* No response of a server makes derive_master_key start a derivation outside
\* the limits of keys.rs.
THEOREM DerivationIsBounded == Spec => []BoundedDerivation
<1>1. Inv => BoundedDerivation
  BY NoneDistinct DEF Inv, StageInv, ResultInv, BoundedDerivation, HasMaster,
                      HasLimits
<1> QED BY <1>1, InvHolds, PTL

\* The InvalidArgon2Parameters paths of derive_master_key are dead code.
THEOREM Argon2NeverRefuses == Spec => []Argon2ParamsAccepted
<1>1. Inv => Argon2ParamsAccepted
  BY DEF Inv, Argon2ParamsAccepted
<1> QED BY <1>1, InvHolds, PTL

\* decrypt_bytes never decrypts what the derived key does not authenticate.
THEOREM MacComesFirst == Spec => []NoUnauthenticatedDecrypt
<1>1. Inv => NoUnauthenticatedDecrypt
  BY NoneDistinct DEF Inv, StageInv, ResultInv, NoUnauthenticatedDecrypt,
                      HasMaster
<1> QED BY <1>1, InvHolds, PTL

\* unlock_session succeeds exactly on the unlockable responses.
THEOREM UnlockIsExact == Spec => []UnlocksExactly
<1>1. Inv => UnlocksExactly
  BY DEF Inv, ResultInv, UnlocksExactly
<1> QED BY <1>1, InvHolds, PTL

-----------------------------------------------------------------------------
(* Type correctness.                                                        *)

\* Whatever the provider keeps of a response has the shape the next step
\* expects: the configuration is complete and the derived key is a key.
THEOREM TypeCorrect == Spec => []TypeOK
<1>1. Init => TypeOK
  BY DEF Init, TypeOK
<1>2. ASSUME Inv, TypeOK, [Next]_vars PROVE TypeOK'
  <2> USE <1>2 DEF Fail, inputs
  <2>1. WrappedUserKey(response) \in EncryptedString \cup {None}
    BY ResponsesAssumption DEF TypeOK, Response, WrappedUserKey
  <2>2. CASE MissingUnlock \/ HasUnlock \/ MissingWrappedKey \/ HasWrappedKey
    BY <2>1, <2>2 DEF MissingUnlock, HasUnlock, MissingWrappedKey,
                      HasWrappedKey, TypeOK, Errors, ApiErrors
  <2>3. CASE RejectKdfParts
    <3>1. result' \in Errors
      BY <2>3 DEF RejectKdfParts, KdfPartsError, Errors, ApiErrors
    <3> QED BY <2>3, <3>1 DEF RejectKdfParts, TypeOK
  <2>4. CASE PreloginReturns \/ AcceptKdfParts
    <3>1. kdf' \in KdfConfig
      BY <2>4, KdfLemma DEF PreloginReturns, AcceptKdfParts, TypeOK
    <3> QED BY <2>4, <3>1 DEF PreloginReturns, AcceptKdfParts, TypeOK
  <2>5. CASE RejectPassword \/ AcceptPassword \/ AcceptBounds
    BY <2>5 DEF RejectPassword, AcceptPassword, AcceptBounds, TypeOK, Errors,
                KeyErrors
  <2>6. CASE RejectBounds
    <3>1. result' \in Errors
      BY <2>6 DEF RejectBounds, Errors, KeyErrors
    <3> QED BY <2>6, <3>1 DEF RejectBounds, TypeOK
  <2>7. CASE DeriveFails
    <3>1. result' \in Errors
      BY <2>7 DEF DeriveFails, Errors, KeyErrors
    <3> QED BY <2>7, <3>1 DEF DeriveFails, TypeOK
  <2>8. CASE DeriveMasterKey
    <3>1. kdf \in KdfConfig
      BY <2>8, KdfLemma DEF DeriveMasterKey, Inv, StageInv, HasLimits, HasKdf
    <3>2. NormalizeSalt(response.salt) \in Salt
      BY ResponsesAssumption DEF TypeOK, Response, NormalizeSalt, Salt
    <3>3. master_key' \in MasterKey
      BY <2>8, <3>1, <3>2 DEF DeriveMasterKey, MasterKey, TypeOK
    <3> QED BY <2>8, <3>3 DEF DeriveMasterKey, TypeOK
  <2>9. CASE RejectFormat
    <3>1. HasMaster
      BY <2>9 DEF RejectFormat, Inv, StageInv
    <3>2. wrapped \in EncryptedString
      BY <3>1, <2>1 DEF HasMaster, HasLimits, HasKdf, HasKey
    <3>3. result' \in FormatErrors
      BY <2>9, <3>2, FormatLemma DEF RejectFormat
    <3>4. result' \in Errors
      BY <3>3 DEF FormatErrors, Errors, CryptoErrors
    <3> QED BY <2>9, <3>4 DEF RejectFormat, TypeOK
  <2>10. CASE AcceptFormat \/ RejectMac \/ AcceptMac \/ DecryptFails
    BY <2>10 DEF AcceptFormat, RejectMac, AcceptMac, DecryptFails, TypeOK,
                 Errors, CryptoErrors
  <2>11. CASE Decrypt
    <3>1. result' \in Errors \cup {"Ok"}
      BY <2>11 DEF Decrypt, Errors, CryptoErrors
    <3> QED BY <2>11, <3>1 DEF Decrypt, TypeOK
  <2>12. CASE UNCHANGED vars
    BY <2>12 DEF vars, TypeOK
  <2> QED
    BY <2>2, <2>3, <2>4, <2>5, <2>6, <2>7, <2>8, <2>9, <2>10, <2>11, <2>12
       DEF Next, Returned
<1> QED BY <1>1, <1>2, InvHolds, PTL DEF Spec
=============================================================================
