------------------------------ MODULE MCWebhook ------------------------------
(* A small instance of Webhook for TLC.                                     *)
EXTENDS Webhook

CONSTANTS q1, q2

Ask(token, json, body, error, key) ==
    [token |-> token, json |-> json, body |-> body, selector_error |-> error,
     key |-> key]

\* One request of each way to fail before the policy check, and a good one.
AllRequests ==
    {Ask("x", TRUE, "selector", None, "k1"),
     Ask("t", FALSE, "selector", None, "k1"),
     Ask("t", TRUE, "malformed", None, "k1"),
     Ask("t", TRUE, "bad_selector", "UnprefixedSelectorKey", "k1"),
     Ask("t", TRUE, "selector", None, "k1")}

\* One error of each class of provider_status_and_kind.
AllResults ==
    {"ok", "Validation", "MissingProperty", "CipherNotFound",
     "UnsupportedAttachment", "AmbiguousCipherName", "UnsupportedSharedItem",
     "Http", "HttpStatus", "Crypto", "NoExtractableFields", "KeyDerivation",
     "UnsupportedKdfType", "MissingKdfParameter", "MissingCachedSync",
     "InvalidBaseUrl"}
=============================================================================
