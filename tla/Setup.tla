-------------------------------- MODULE Setup --------------------------------
(***************************************************************************)
(* The construction of a client (config.go, client.go NewClient,           *)
(* internal/signing NewSigner and ParseAddress): defaults, validation, and *)
(* the network, the signer and the account that the client works with.     *)
(*                                                                         *)
(* A text of hex digits is NoText or [value, length, hex]; the optional    *)
(* "0x" and the case of the digits make no difference and are left out.    *)
(***************************************************************************)
EXTENDS Integers

CONSTANTS
  Settings,      \* numeric fields of Config; among them the two below
  DefaultOf,     \* their values in DefaultConfig
  NoText,        \* the empty text
  AddressOfKey   \* the address that belongs to a key's value

ASSUME SetupAssumption ==
  /\ {"ReadTimeout", "PingInterval"} \subseteq Settings
  /\ DefaultOf \in [Settings -> Int]
  /\ DefaultOf["ReadTimeout"] > DefaultOf["PingInterval"]

MainnetRestURL == "https://api.hyperliquid.xyz"
MainnetWsURL == "wss://api.hyperliquid.xyz/ws"
TestnetRestURL == "https://api.hyperliquid-testnet.xyz"
TestnetWsURL == "wss://api.hyperliquid-testnet.xyz/ws"

DefaultConfig ==
  [testnet |-> FALSE, rest |-> MainnetRestURL, ws |-> MainnetWsURL,
   number |-> DefaultOf, key |-> NoText, account |-> NoText, vault |-> NoText]

\* Mutant: only an empty URL counts as not set.
withDefaultsEmpty(c) ==
  [c EXCEPT
     !.rest = IF @ = "" THEN (IF c.testnet THEN TestnetRestURL ELSE MainnetRestURL) ELSE @,
     !.ws = IF @ = "" THEN (IF c.testnet THEN TestnetWsURL ELSE MainnetWsURL) ELSE @,
     !.number = [s \in Settings |-> IF @[s] = 0 THEN DefaultOf[s] ELSE @[s]]]

\* A URL is not set when it is empty or, on the testnet, the mainnet default.
UrlOf(c, url, mainnet, testnet) ==
  IF url = "" \/ (c.testnet /\ url = mainnet)
  THEN (IF c.testnet THEN testnet ELSE mainnet) ELSE url

withDefaults(c) ==
  [c EXCEPT
     !.rest = UrlOf(c, @, MainnetRestURL, TestnetRestURL),
     !.ws = UrlOf(c, @, MainnetWsURL, TestnetWsURL),
     !.number = [s \in Settings |-> IF @[s] = 0 THEN DefaultOf[s] ELSE @[s]]]

validate(c) ==
  /\ c.rest # "" /\ c.ws # ""
  /\ c.number["ReadTimeout"] > c.number["PingInterval"]

AddressLength == 20
IsAddress(text) == text.length = 2 * AddressLength /\ text.hex

\* A key is 32 bytes, not zero and below the group order ("overflow").
IsKey(text) == text.length = 64 /\ text.hex /\ text.value \notin {"zero", "overflow"}

Refused(kind) == [ok |-> FALSE, kind |-> kind]

NewClient(cfg) ==
  LET c == withDefaults(cfg)
  IN IF ~ validate(c) THEN Refused("invalid_request")
     ELSE IF c.key # NoText /\ ~ IsKey(c.key) THEN Refused("auth")
     ELSE IF \E text \in {c.vault, c.account} \ {NoText} : ~ IsAddress(text)
     THEN Refused("invalid_request")
     ELSE [ok |-> TRUE, cfg |-> [c EXCEPT !.key = NoText],
           signs     |-> c.key # NoText,
           isMainnet |-> ~ c.testnet,
           vault     |-> c.vault,
           user      |-> CASE c.vault # NoText -> c.vault.value
                           [] c.vault = NoText /\ c.account # NoText -> c.account.value
                           [] c.vault = NoText /\ c.account = NoText /\ c.key # NoText ->
                                AddressOfKey[c.key.value]
                           [] OTHER -> ""]
==============================================================================
