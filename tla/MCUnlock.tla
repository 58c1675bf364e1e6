------------------------------- MODULE MCUnlock -------------------------------
(* Small instances of Unlock for TLC.                                       *)
EXTENDS Unlock

\* A short email (six bytes) and an ordinary one.
MCSaltBytes == [user |-> 16, tiny |-> 6]

\* The KDF settings of the two accounts.
Pbkdf2 == [type |-> "Pbkdf2Sha256", pbkdf2_iterations |-> 5000]
Argon2 == [type |-> "Argon2id", argon2_iterations |-> 10,
           argon2_memory_mib |-> 1024, argon2_parallelism |-> 16]

KeyOf(account, k) ==
    [password |-> "pw", kdf |-> k,
     salt |-> [account |-> account, decorated |-> FALSE]]

Keys == {KeyOf(a, k) : a \in {"user", "tiny"}, k \in {Pbkdf2, Argon2}}

\* Around each limit, the limit of u32 in KiB, and zero lanes.
Parts ==
    [kdf_type : {0}, iterations : {4999, 5000, 2000000, 2000001},
     memory : {None}, parallelism : {None}]
      \cup [kdf_type : {1}, iterations : {1, 2, 10, 11},
            memory : {None, 15, 16, 1024, 1025, 2^22},
            parallelism : {None, 0, 1, 16, 17}]
      \cup [kdf_type : {2}, iterations : {5000},
            memory : {16}, parallelism : {1}]

Good(key) == [header |-> "2", parts |-> 3, iv |-> 16, data |-> 80,
              mac |-> 32, key |-> key, plain |-> 64]

\* The string of an account, tampered with, and with each defect in turn.
StringsOf(s) ==
    {s, [s EXCEPT !.key = None], [s EXCEPT !.key = None, !.plain = None],
     [s EXCEPT !.plain = None], [s EXCEPT !.plain = 32],
     [s EXCEPT !.header = "absent"], [s EXCEPT !.header = "garbage"],
     [s EXCEPT !.header = "0"], [s EXCEPT !.header = "other"],
     [s EXCEPT !.parts = 2], [s EXCEPT !.mac = None],
     [s EXCEPT !.iv = 12], [s EXCEPT !.mac = 16],
     [s EXCEPT !.data = 0], [s EXCEPT !.data = 72]}

Strings == UNION {StringsOf(Good(key)) : key \in Keys}

Salts == [account : {"user", "tiny"}, decorated : BOOLEAN]

\* Every KDF with authentic strings; every string with the accounts' KDFs;
\* and the two names of the wrapped key, with either, both or none.
MCResponses ==
    [kdf : Parts, salt : Salts, master_password_unlock : {TRUE},
     master_key_wrapped_user_key : {Good(key) : key \in Keys},
     master_key_encrypted_user_key : {None}]
      \cup
    [kdf : {q \in Parts : KdfFromParts(q) \in {Pbkdf2, Argon2}},
     salt : Salts, master_password_unlock : BOOLEAN,
     master_key_wrapped_user_key : Strings \cup {None},
     master_key_encrypted_user_key :
         {None} \cup {Good(key) : key \in Keys}]
=============================================================================
