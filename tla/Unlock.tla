-------------------------------- MODULE Unlock --------------------------------
(***************************************************************************)
(* Unlocking the user key: what unlock_session does with a token response   *)
(* between login and sync, and what prelogin returns.  Both turn numbers    *)
(* the server chose into a KdfConfig; only unlock_session goes on to derive *)
(* the master key from the configured password and to unwrap the user key.  *)
(*                                                                          *)
(* Cryptography is symbolic.  A key is the record of what it was derived    *)
(* from, so two derivations agree exactly when password, normalised salt    *)
(* and KDF agree; an encrypted string carries the shape its parser looks at *)
(* and the key under which its MAC verifies.                                *)
(***************************************************************************)
EXTENDS Integers, Sequences

CONSTANTS
    Responses,    \* prelogin and token responses of the server
    Passwords,    \* values of the configured master password
    EmptyPassword,
    SaltBytes,    \* SaltBytes[a]: length of the normalised email of account a
    None          \* Option::None, and a part that is not valid base64

Accounts == DOMAIN SaltBytes

\* u32 and u8 numbers as the response carries them.  TLC's integers end below
\* u32::MAX, which no definition below needs.
KdfParts ==
    [kdf_type : Nat, iterations : Nat,
     memory : Nat \cup {None}, parallelism : Nat \cup {None}]

KdfConfig ==
    [type : {"Pbkdf2Sha256"}, pbkdf2_iterations : Nat]
      \cup [type : {"Argon2id"}, argon2_iterations : Nat,
            argon2_memory_mib : Nat, argon2_parallelism : Nat]

\* The salt as the server spells it: decorated with case and white space.
Salt == [account : Accounts, decorated : BOOLEAN]

MasterKey == [password : Passwords, salt : Salt, kdf : KdfConfig]

\* `<header>.<iv>|<data>|<mac>`: decoded lengths, the key that verifies the
\* MAC, and what AES-CBC makes of the data (None: bad padding).
EncryptedString ==
    [header : {"absent", "garbage", "0", "2", "other"}, parts : Nat,
     iv : Nat \cup {None}, data : Nat \cup {None}, mac : Nat \cup {None},
     key : MasterKey \cup {None}, plain : Nat \cup {None}]

Response ==
    [kdf : KdfParts, salt : Salt,
     master_password_unlock : BOOLEAN,
     master_key_wrapped_user_key : EncryptedString \cup {None},
     master_key_encrypted_user_key : EncryptedString \cup {None}]

\* The errors of the three layers, without their details.
ApiErrors ==
    {"MissingMasterPasswordUnlock", "MissingMasterKeyWrappedUserKey",
     "UnsupportedKdfType", "MissingKdfParameter"}
KeyErrors ==
    {"EmptyPassword", "KdfDowngrade", "KdfTooExpensive",
     "InvalidArgon2Parameters", "Argon2Failed"}
CryptoErrors ==
    {"LegacyNoMacDisabled", "InvalidEncryptionTypeHeader",
     "UnsupportedEncryptionType", "InvalidPartCount", "InvalidBase64",
     "InvalidIvLength", "InvalidMacLength", "InvalidCiphertextLength",
     "MacVerificationFailed", "DecryptFailed", "InvalidKeyLength"}
Errors == ApiErrors \cup KeyErrors \cup CryptoErrors

ASSUME ResponsesAssumption == Responses \subseteq Response
ASSUME SaltAssumption == SaltBytes \in [Accounts -> Nat]
ASSUME NoneAssumption ==
    /\ None \notin Nat /\ None \notin MasterKey /\ None \notin EncryptedString
    /\ None \notin KdfConfig /\ None \notin Errors \cup {"Ok"}

VARIABLES
    op,          \* "prelogin" or "unlock_session"
    response,    \* the server's response
    password,    \* auth.master_password
    pc,          \* the next check
    wrapped,     \* MasterPasswordUnlockData.master_key_wrapped_user_key
    kdf,         \* the KdfConfig, once converted
    master_key,  \* the derived master key
    result       \* error or success once pc is "done"

inputs == <<op, response, password>>
vars == <<inputs, pc, wrapped, kdf, master_key, result>>

Init ==
    /\ op \in {"prelogin", "unlock_session"}
    /\ response \in Responses
    /\ password \in Passwords
    /\ pc = IF op = "prelogin" THEN "kdf" ELSE "options"
    /\ wrapped = None /\ kdf = None /\ master_key = None
    /\ result = None

Fail(error) == pc' = "done" /\ result' = error

-----------------------------------------------------------------------------
(* From the response to MasterPasswordUnlockData.                           *)

MissingUnlock ==
    /\ pc = "options"
    /\ ~response.master_password_unlock
    /\ Fail("MissingMasterPasswordUnlock")
    /\ UNCHANGED <<inputs, wrapped, kdf, master_key>>

HasUnlock ==
    /\ pc = "options"
    /\ response.master_password_unlock
    /\ pc' = "wrapped_key"
    /\ UNCHANGED <<inputs, wrapped, kdf, master_key, result>>

\* The wrapped key goes by two names; the first one present is used.
WrappedUserKey(r) ==
    IF r.master_key_wrapped_user_key # None
    THEN r.master_key_wrapped_user_key
    ELSE r.master_key_encrypted_user_key

MissingWrappedKey ==
    /\ pc = "wrapped_key"
    /\ WrappedUserKey(response) = None
    /\ Fail("MissingMasterKeyWrappedUserKey")
    /\ UNCHANGED <<inputs, wrapped, kdf, master_key>>

HasWrappedKey ==
    /\ pc = "wrapped_key"
    /\ WrappedUserKey(response) # None
    /\ wrapped' = WrappedUserKey(response)
    /\ pc' = "kdf"
    /\ UNCHANGED <<inputs, kdf, master_key, result>>

\* Mutant: a missing memory cost is not noticed.
KdfPartsErrorNoMemory(parts) ==
    IF parts.kdf_type \notin {0, 1} THEN "UnsupportedKdfType"
    ELSE IF parts.kdf_type = 1 /\ parts.parallelism = None
    THEN "MissingKdfParameter"
    ELSE None

\* kdf_from_parts: why the numbers make no KdfConfig, or None.
KdfPartsError(parts) ==
    IF parts.kdf_type \notin {0, 1} THEN "UnsupportedKdfType"
    ELSE IF parts.kdf_type = 1 /\ None \in {parts.memory, parts.parallelism}
    THEN "MissingKdfParameter"
    ELSE None

KdfFromParts(parts) ==
    IF parts.kdf_type = 0
    THEN [type |-> "Pbkdf2Sha256", pbkdf2_iterations |-> parts.iterations]
    ELSE [type |-> "Argon2id", argon2_iterations |-> parts.iterations,
          argon2_memory_mib |-> parts.memory,
          argon2_parallelism |-> parts.parallelism]

RejectKdfParts ==
    /\ pc = "kdf"
    /\ KdfPartsError(response.kdf) # None
    /\ Fail(KdfPartsError(response.kdf))
    /\ UNCHANGED <<inputs, wrapped, kdf, master_key>>

\* prelogin hands the converted configuration to its caller as it is.
PreloginReturns ==
    /\ op = "prelogin"
    /\ pc = "kdf"
    /\ KdfPartsError(response.kdf) = None
    /\ kdf' = KdfFromParts(response.kdf)
    /\ pc' = "done" /\ result' = "Ok"
    /\ UNCHANGED <<inputs, wrapped, master_key>>

AcceptKdfParts ==
    /\ op = "unlock_session"
    /\ pc = "kdf"
    /\ KdfPartsError(response.kdf) = None
    /\ kdf' = KdfFromParts(response.kdf)
    /\ pc' = "password"
    /\ UNCHANGED <<inputs, wrapped, master_key, result>>

-----------------------------------------------------------------------------
(* Deriving the master key.                                                 *)

RejectPassword ==
    /\ pc = "password"
    /\ password = EmptyPassword
    /\ Fail("EmptyPassword")
    /\ UNCHANGED <<inputs, wrapped, kdf, master_key>>

AcceptPassword ==
    /\ pc = "password"
    /\ password # EmptyPassword
    /\ pc' = "bounds"
    /\ UNCHANGED <<inputs, wrapped, kdf, master_key, result>>

Minimum ==
    [pbkdf2_iterations |-> 5000, argon2_iterations |-> 2,
     argon2_memory_mib |-> 16, argon2_parallelism |-> 1]

Maximum ==
    [pbkdf2_iterations |-> 2000000, argon2_iterations |-> 10,
     argon2_memory_mib |-> 1024, argon2_parallelism |-> 16]

\* Mutant: parallelism is not validated.
ParametersUnthreaded(k) ==
    IF k.type = "Pbkdf2Sha256"
    THEN <<"pbkdf2_iterations">>
    ELSE <<"argon2_iterations", "argon2_memory_mib">>

\* What validate_for_prelogin looks at, in this order.
Parameters(k) ==
    IF k.type = "Pbkdf2Sha256"
    THEN <<"pbkdf2_iterations">>
    ELSE <<"argon2_iterations", "argon2_memory_mib", "argon2_parallelism">>

\* Mutant: only downgrades are refused.
NotBelow(k, parameter) == Minimum[parameter] <= k[parameter]

InBounds(k, parameter) ==
    Minimum[parameter] <= k[parameter] /\ k[parameter] <= Maximum[parameter]

\* The first parameter out of bounds decides the error.
RejectBounds ==
    /\ pc = "bounds"
    /\ \E i \in DOMAIN Parameters(kdf) :
          LET parameter == Parameters(kdf)[i]
          IN  /\ ~InBounds(kdf, parameter)
              /\ \A j \in 1 .. i - 1 : InBounds(kdf, Parameters(kdf)[j])
              /\ Fail(IF kdf[parameter] < Minimum[parameter]
                      THEN "KdfDowngrade" ELSE "KdfTooExpensive")
    /\ UNCHANGED <<inputs, wrapped, kdf, master_key>>

AcceptBounds ==
    /\ pc = "bounds"
    /\ \A i \in DOMAIN Parameters(kdf) : InBounds(kdf, Parameters(kdf)[i])
    /\ pc' = "derive"
    /\ UNCHANGED <<inputs, wrapped, kdf, master_key, result>>

\* Mutant: the salt is used as the server spells it.
RawSalt(salt) == salt

\* trim and to_lowercase.
NormalizeSalt(salt) == [account |-> salt.account, decorated |-> FALSE]

\* memory_mib * 1024 fits u32, and Params::new accepts the result: at least
\* one pass and one lane, and eight KiB for every lane.
Argon2ParamsValid(k) ==
    /\ k.argon2_memory_mib <= 2^22 - 1
    /\ k.argon2_iterations >= 1
    /\ k.argon2_parallelism >= 1
    /\ k.argon2_parallelism <= 128 * k.argon2_memory_mib

\* The Argon2 library refuses salts of fewer bytes.
MinSaltBytes == 8

Derivable ==
    kdf.type = "Argon2id" =>
        /\ Argon2ParamsValid(kdf)
        /\ SaltBytes[response.salt.account] >= MinSaltBytes

DeriveFails ==
    /\ pc = "derive"
    /\ ~Derivable
    /\ Fail(IF Argon2ParamsValid(kdf) THEN "Argon2Failed"
                                      ELSE "InvalidArgon2Parameters")
    /\ UNCHANGED <<inputs, wrapped, kdf, master_key>>

DeriveMasterKey ==
    /\ pc = "derive"
    /\ Derivable
    /\ master_key' = [password |-> password,
                      salt |-> NormalizeSalt(response.salt), kdf |-> kdf]
    /\ pc' = "parse"
    /\ UNCHANGED <<inputs, wrapped, kdf, result>>

-----------------------------------------------------------------------------
(* Unwrapping the user key.  stretch_master_key is injective, so the master *)
(* key stands for the key it is stretched to.                               *)

\* EncryptedString::from_str: its checks in their order, with their errors.
FormatChecks(s) ==
    << <<s.header # "absent", "LegacyNoMacDisabled">>,
       <<s.header # "garbage", "InvalidEncryptionTypeHeader">>,
       <<s.header # "0", "LegacyNoMacDisabled">>,
       <<s.header = "2", "UnsupportedEncryptionType">>,
       <<s.parts = 3, "InvalidPartCount">>,
       <<None \notin {s.iv, s.data, s.mac}, "InvalidBase64">>,
       <<s.iv = 16, "InvalidIvLength">>,
       <<s.mac = 32, "InvalidMacLength">>,
       <<s.data # None /\ s.data # 0 /\ s.data % 16 = 0,
         "InvalidCiphertextLength">> >>

RejectFormat ==
    /\ pc = "parse"
    /\ \E i \in DOMAIN FormatChecks(wrapped) :
          /\ ~FormatChecks(wrapped)[i][1]
          /\ \A j \in 1 .. i - 1 : FormatChecks(wrapped)[j][1]
          /\ Fail(FormatChecks(wrapped)[i][2])
    /\ UNCHANGED <<inputs, wrapped, kdf, master_key>>

\* Mutant: the ciphertext is decrypted first.
AcceptFormatUnverified ==
    /\ pc = "parse"
    /\ \A i \in DOMAIN FormatChecks(wrapped) : FormatChecks(wrapped)[i][1]
    /\ pc' = "decrypt"
    /\ UNCHANGED <<inputs, wrapped, kdf, master_key, result>>

AcceptFormat ==
    /\ pc = "parse"
    /\ \A i \in DOMAIN FormatChecks(wrapped) : FormatChecks(wrapped)[i][1]
    /\ pc' = "mac"
    /\ UNCHANGED <<inputs, wrapped, kdf, master_key, result>>

RejectMac ==
    /\ pc = "mac"
    /\ wrapped.key # master_key
    /\ Fail("MacVerificationFailed")
    /\ UNCHANGED <<inputs, wrapped, kdf, master_key>>

AcceptMac ==
    /\ pc = "mac"
    /\ wrapped.key = master_key
    /\ pc' = "decrypt"
    /\ UNCHANGED <<inputs, wrapped, kdf, master_key, result>>

DecryptFails ==
    /\ pc = "decrypt"
    /\ wrapped.plain = None
    /\ Fail("DecryptFailed")
    /\ UNCHANGED <<inputs, wrapped, kdf, master_key>>

Decrypt ==
    /\ pc = "decrypt"
    /\ wrapped.plain # None
    /\ pc' = "done"
    /\ result' = IF wrapped.plain = 64 THEN "Ok" ELSE "InvalidKeyLength"
    /\ UNCHANGED <<inputs, wrapped, kdf, master_key>>

Returned == pc = "done" /\ UNCHANGED vars

Next ==
    \/ MissingUnlock \/ HasUnlock \/ MissingWrappedKey \/ HasWrappedKey
    \/ RejectKdfParts \/ PreloginReturns \/ AcceptKdfParts
    \/ RejectPassword \/ AcceptPassword \/ RejectBounds \/ AcceptBounds
    \/ DeriveFails \/ DeriveMasterKey
    \/ RejectFormat \/ AcceptFormat \/ RejectMac \/ AcceptMac
    \/ DecryptFails \/ Decrypt
    \/ Returned

Spec == Init /\ [][Next]_vars
-----------------------------------------------------------------------------
(* Properties.                                                              *)

\* Type correctness: in particular the KdfConfig that kdf_from_parts makes is
\* complete.
TypeOK ==
    /\ op \in {"prelogin", "unlock_session"}
    /\ response \in Responses
    /\ password \in Passwords
    /\ pc \in {"options", "wrapped_key", "kdf", "password", "bounds",
               "derive", "parse", "mac", "decrypt", "done"}
    /\ wrapped \in EncryptedString \cup {None}
    /\ kdf \in KdfConfig \cup {None}
    /\ master_key \in MasterKey \cup {None}
    /\ result \in Errors \cup {"Ok", None}

\* A configuration within the limits of keys.rs.
WithinLimits(k) ==
    \A parameter \in DOMAIN Minimum \cap DOMAIN k :
        /\ Minimum[parameter] <= k[parameter]
        /\ k[parameter] <= Maximum[parameter]

\* "caps them at Bitwarden's current setting maximums so a controller process
\* cannot be asked to perform unbounded key derivation": whatever a server
\* answers, derive_master_key starts no derivation outside the limits.
BoundedDerivation ==
    \/ pc \in {"derive", "parse", "mac", "decrypt"}
    \/ result \in {"Argon2Failed", "InvalidArgon2Parameters"}
    \/ master_key # None
      => WithinLimits(kdf)

\* Behind the limits the conversion to KiB cannot overflow and Params::new
\* cannot refuse: the InvalidArgon2Parameters paths of derive_master_key are
\* never taken.
Argon2ParamsAccepted == result # "InvalidArgon2Parameters"

\* "Decryption verifies the MAC before attempting AES-CBC decryption": data
\* that the derived key does not authenticate is never decrypted, and its
\* padding and length never decide an error.
NoUnauthenticatedDecrypt ==
    \/ pc = "decrypt"
    \/ result \in {"DecryptFailed", "InvalidKeyLength"}
    \/ op = "unlock_session" /\ result = "Ok"
      => wrapped.key = master_key /\ master_key # None

\* What an unlockable response is, without regard to the order of the checks:
\* the key string under the preferred name is authentic under the key that
\* the configured password, the account's email and the announced KDF give.
WellFormed(s) ==
    /\ s.header = "2" /\ s.parts = 3
    /\ s.iv = 16 /\ s.mac = 32 /\ s.data \in Nat \ {0} /\ s.data % 16 = 0

Unlockable(r, pw) ==
    LET s == WrappedUserKey(r)
        parts == r.kdf
        k == KdfFromParts(parts)
    IN  /\ r.master_password_unlock
        /\ s # None
        /\ \/ parts.kdf_type = 0
           \/ /\ parts.kdf_type = 1
              /\ parts.memory # None /\ parts.parallelism # None
              /\ SaltBytes[r.salt.account] >= MinSaltBytes
        /\ WithinLimits(k)
        /\ pw # EmptyPassword
        /\ WellFormed(s)
        /\ s.key = [password |-> pw, kdf |-> k,
                    salt |-> [account |-> r.salt.account, decorated |-> FALSE]]
        /\ s.plain = 64

\* unlock_session succeeds exactly on the unlockable responses: no order of
\* its early returns turns a good response away or lets a bad one through,
\* and the spelling of the email does not matter.
UnlocksExactly ==
    op = "unlock_session" /\ pc = "done" =>
        (result = "Ok" <=> Unlockable(response, password))

\* The comment on prelogin: "Returns an error for ... KDF downgrade/resource
\* validation failures".
PreloginValidates ==
    op = "prelogin" /\ result = "Ok" => WithinLimits(kdf)
=============================================================================
