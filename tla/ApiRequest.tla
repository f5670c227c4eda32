------------------------------ MODULE ApiRequest -------------------------------
(***************************************************************************)
(* One request of the API plugin: ApiSignature builds its URL,             *)
(* http_call_sync sends it and collects the answer, and the caller makes   *)
(* something of code and body.  TradeApi has such a request as one step.   *)
(*                                                                         *)
(* The exchange (external) decodes the query, puts the parameters in the   *)
(* order of their names, encodes them again, and compares the signature of *)
(* that text with the one it was sent.  Its answer comes in pieces; before *)
(* any of them the call can time out or the connection break, and a        *)
(* request can reach the exchange when nobody waits for its answer.        *)
(*                                                                         *)
(* A text is the sequence of its bytes.                                    *)
(***************************************************************************)
EXTENDS Integers, FiniteSets, SequencesExt

CONSTANTS Expired,       \* trad-api-expired-seconds
          Longer,        \* what query_order_id_by_client adds to it: 30
          AccessKeys, SecretKeys, \* what the options may hold
          TheSecretKey,  \* the one the exchange knows
          Times,         \* what gmtime says: date and hour, minute, second
          ClientIds,     \* texts of client ids
          Codes,         \* base64 texts a signature may be
          Pieces,        \* in how many pieces an answer comes
          MaxCalls       \* bound: calls

Bytes == 0 .. 255
Alphanumeric == 48 .. 57 \cup 97 .. 122 \cup 65 .. 90

(* RFC 3986: what a query takes as it is, here "-", ".", "_" and "~" too   *)
Unreserved == Alphanumeric \cup {45, 46, 95, 126}

ASSUME ExpiryAssumption == Expired \in Nat /\ Longer \in Nat
(* ApiSignature puts the access key, the client id and the fields of the   *)
(* time into the URL as they are: the exchange makes keys of letters,      *)
(* digits and hyphens, generate_order_id a uuid, sprintf dates of digits.  *)
ASSUME RequestTextAssumption ==
  /\ AccessKeys \cup ClientIds \subseteq Seq(Unreserved)
  /\ Times \subseteq [hour : Seq(Unreserved), minute : Seq(Unreserved),
                      second : Seq(Unreserved)]
  /\ SecretKeys \cup Codes \subseteq Seq(Bytes)
  /\ TheSecretKey \in SecretKeys
ASSUME PieceAssumption == Pieces \in Nat \ {0} /\ MaxCalls \in Nat

-----------------------------------------------------------------------------
(* ApiSignature.                                                           *)

dec2hexChar(n) == IF n <= 9 THEN 48 + n ELSE 55 + n

(* c is a char, negative from 128 on *)
Byte(c) == IF c < 0 THEN c + 256 ELSE c

(* mutant: the characters of base64 are let through *)
mut_escapeChar(c) == IF c \in Alphanumeric \cup {43, 47, 61} THEN <<c>>
                     ELSE <<37, dec2hexChar(c \div 16), dec2hexChar(c % 16)>>
(* a byte as escapeURL writes it: "/" and "." stay                         *)
escapeChar(c) ==
  IF c \in Alphanumeric \cup {46, 47} THEN <<c>>
  ELSE <<37, dec2hexChar(Byte(c) \div 16), dec2hexChar(Byte(c) % 16)>>

escapeURL(text) == FlattenSeq([i \in DOMAIN text |-> escapeChar(text[i])])

(* sprintf writes the colons of the time encoded, as "%3A"                 *)
Colon == <<37, 51, 65>>
timeBuf(t) == t.hour \o Colon \o t.minute \o Colon \o t.second

(* the parameters in the order they are signed in; names are their ranks   *)
(* by ASCII: AccessKeyId, SignatureMethod, SignatureVersion, Timestamp,    *)
(* clientOrderId                                                           *)
Plain == <<50>>  \* HmacSHA256, or 2: a text that needs no encoding

Params(key, time, param) ==
  << [name |-> 1, text |-> key], [name |-> 2, text |-> Plain],
     [name |-> 3, text |-> Plain], [name |-> 4, text |-> timeBuf(time)] >> \o
  IF param = <<>> THEN <<>> ELSE <<[name |-> 5, text |-> param]>>

(* CreateSignature: what is signed, with method, host and path for one     *)
(* opaque target                                                           *)
Canonical(req, key, time) ==
  [target |-> req.target, params |-> Params(key, time, req.param)]

(* buildSignaturePath, and what its caller appends: the signature is code, *)
(* and code is the one of this text under this secret key                  *)
SignedUrl(req, key, secret, time, code) ==
  [target    |-> req.target,
   params    |-> Params(key, time, req.param),
   signature |-> escapeURL(code),
   mac       |-> [code |-> code, secret |-> secret,
                  of |-> Canonical(req, key, time)]]

-----------------------------------------------------------------------------
(* The exchange's side of it: external.                                    *)

HexDigit(b) == IF b <= 57 THEN b - 48 ELSE b - 55

(* application/x-www-form-urlencoded: "+" is a space                       *)
DecodeByte(s, b) ==
  IF Len(s.triple) = 2
  THEN [triple |-> <<>>,
        text |-> Append(s.text, 16 * HexDigit(s.triple[2]) + HexDigit(b))]
  ELSE IF s.triple # <<>> \/ b = 37
       THEN [s EXCEPT !.triple = Append(@, b)]
       ELSE [s EXCEPT !.text = Append(@, IF b = 43 THEN 32 ELSE b)]

Decoded(text) ==
  FoldLeft(DecodeByte, [triple |-> <<>>, text |-> <<>>], text).text

EncodeChar(b) ==
  IF b \in Unreserved THEN <<b>>
  ELSE <<37, dec2hexChar(b \div 16), dec2hexChar(b % 16)>>

Encoded(text) == FlattenSeq([i \in DOMAIN text |-> EncodeChar(text[i])])

(* the i-th parameter by name                                              *)
InOrder(params, i) ==
  CHOOSE p \in ToSet(params) :
    Cardinality({k \in DOMAIN params : params[k].name < p.name}) = i - 1

Recomputed(url) ==
  [target |-> url.target,
   params |-> [i \in DOMAIN url.params |->
                 LET p == InOrder(url.params, i)
                 IN  [p EXCEPT !.text = Encoded(Decoded(p.text))]]]

Verified(url) ==
  /\ url.mac.secret = TheSecretKey
  /\ Recomputed(url) = url.mac.of
  /\ Decoded(url.signature) = url.mac.code

-----------------------------------------------------------------------------
VARIABLES phase,    \* "idle", "open", "performed", "result"
          call_no,
          req, url,
          net,      \* requests on their way to the exchange
          served,   \* the calls the exchange has executed, in this order
          answer,   \* what is on its way back: pieces to come
          sBuffer,
          code,
          elapsed,
          result    \* "none", "value", "throw"

httpvars == <<phase, call_no, req, url, net, served, answer, sBuffer, code,
              elapsed, result>>

(* The requests of the plugin that are signed: query_order_id_by_client    *)
(* has a parameter, and more time.                                         *)
Requests ==
  {[target |-> target, param |-> <<>>, expired_seconds |-> Expired] :
     target \in {"GET accounts", "GET order", "POST submitcancel",
                 "POST place"}} \cup
  {[target |-> "GET getClientOrder", param |-> id,
    expired_seconds |-> Expired + Longer] : id \in ClientIds}

NoRequest == [target |-> "none", param |-> <<>>, expired_seconds |-> 0]
NoUrl == [target |-> "none", params |-> <<>>, signature |-> <<>>]
NoAnswer == [begun |-> FALSE, pieces |-> 0, ok |-> FALSE]

ApiRequestInit ==
  /\ phase = "idle" /\ call_no = 0
  /\ req = NoRequest /\ url = NoUrl
  /\ net = {} /\ served = <<>>
  /\ answer = NoAnswer /\ sBuffer = <<>>
  /\ code = 0 /\ elapsed = 0 /\ result = "none"

mut_SharedBuffer == UNCHANGED sBuffer  \* mutant: one buffer for all calls
FreshBuffer == sBuffer' = <<>>

NextCall == phase = "idle" /\ call_no < MaxCalls /\ call_no' = call_no + 1

(* http_call_sync up to curl_easy_perform, and the request leaves          *)
HttpCall ==
  /\ NextCall
  /\ \E r \in Requests, key \in AccessKeys \ {<<>>},
        secret \in SecretKeys \ {<<>>}, time \in Times, c \in Codes :
       /\ req' = r
       /\ url' = SignedUrl(r, key, secret, time, c)
  /\ FreshBuffer
  /\ net' = net \cup {[no |-> call_no', url |-> url']}
  /\ phase' = "open"
  /\ UNCHANGED <<served, answer, code, elapsed, result>>

(* CreateSignature refuses an empty key; curl cannot be initialized        *)
ThrowsAtOnce ==
  /\ NextCall
  /\ phase' = "result" /\ result' = "throw"
  /\ UNCHANGED <<req, url, net, served, answer, sBuffer, code, elapsed>>

(* writeFun                                                                *)
Receive ==
  /\ phase = "open" /\ answer.pieces > 0
  /\ sBuffer' = Append(sBuffer, [no |-> call_no, piece |-> answer.pieces,
                                 ok |-> answer.ok])
  /\ answer' = [answer EXCEPT !.pieces = @ - 1]
  /\ UNCHANGED <<phase, call_no, req, url, net, served, code, elapsed, result>>

(* curl_easy_perform returns; the response is what sBuffer has             *)
Perform(c) ==
  /\ phase = "open"
  /\ code' = c /\ phase' = "performed"
  /\ UNCHANGED <<call_no, req, url, net, served, answer, sBuffer, elapsed,
                 result>>

(* the answer has come, or the exchange has closed the connection in the   *)
(* middle of an answer whose length it had not told                        *)
AnswerEnds == answer.begun /\ Perform(0)

(* CURLE_COULDNT_CONNECT, CURLE_RECV_ERROR, ...                            *)
Broken == Perform(56)

mut_NoLimit == 0  \* mutant: CURLOPT_TIMEOUT is not set
(* CURLOPT_TIMEOUT; 0 is no limit                                          *)
Limit == req.expired_seconds

(* CURLE_OPERATION_TIMEDOUT                                                *)
TimesOut == Limit > 0 /\ elapsed >= Limit /\ Perform(28)

(* mutant: the limit is not looked at *)
mut_Second ==
  /\ phase = "open" /\ Limit > 0
  /\ elapsed' = elapsed + 1
  /\ UNCHANGED <<phase, call_no, req, url, net, served, answer, sBuffer, code,
                 result>>
Second ==
  /\ phase = "open" /\ elapsed < Limit
  /\ elapsed' = elapsed + 1
  /\ UNCHANGED <<phase, call_no, req, url, net, served, answer, sBuffer, code,
                 result>>

(* what read_json reads: one answer, and all of it                         *)
Readable ==
  /\ Len(sBuffer) = Pieces
  /\ \A i \in DOMAIN sBuffer : sBuffer[i].piece = Pieces + 1 - i

(* The caller: a code throws, or makes new_order ask for its order; then   *)
(* the body and the status in it decide.                                   *)
Return ==
  /\ phase = "performed"
  /\ result' = IF code = 0 /\ Readable /\ sBuffer[1].ok THEN "value" ELSE "throw"
  /\ phase' = "result"
  /\ UNCHANGED <<call_no, req, url, net, served, answer, sBuffer, code, elapsed>>

Done ==
  /\ phase = "result"
  /\ phase' = "idle" /\ result' = "none"
  /\ req' = NoRequest /\ url' = NoUrl /\ answer' = NoAnswer
  /\ code' = 0 /\ elapsed' = 0
  /\ UNCHANGED <<call_no, net, served, sBuffer>>

-----------------------------------------------------------------------------
(* The exchange.  It answers a request whose sender still waits, and may   *)
(* refuse one that it can verify.                                          *)
Arrive(r) ==
  /\ net' = net \ {r}
  /\ \E ok \in {Verified(r.url), FALSE} :
       /\ served' = IF ok THEN Append(served, r.no) ELSE served
       /\ answer' = IF phase = "open" /\ r.no = call_no
                    THEN [begun |-> TRUE, pieces |-> Pieces, ok |-> ok]
                    ELSE answer
  /\ UNCHANGED <<phase, call_no, req, url, sBuffer, code, elapsed, result>>

Lost(r) ==
  /\ net' = net \ {r}
  /\ UNCHANGED <<phase, call_no, req, url, served, answer, sBuffer, code,
                 elapsed, result>>

Calling ==
  \/ HttpCall \/ ThrowsAtOnce
  \/ Receive \/ AnswerEnds \/ Broken \/ TimesOut
  \/ Return \/ Done

Arriving == \E r \in net : Arrive(r) \/ Lost(r)

ApiRequestNext == Calling \/ Second \/ Arriving

ApiRequestSpec == ApiRequestInit /\ [][ApiRequestNext]_httpvars

(* Time passes, curl looks at it, and the caller goes on; the exchange and *)
(* the network owe nothing.                                                *)
ApiRequestLiveSpec ==
  /\ ApiRequestSpec
  /\ WF_httpvars(Second) /\ WF_httpvars(TimesOut)
  /\ WF_httpvars(Return) /\ WF_httpvars(Done)

-----------------------------------------------------------------------------
(* The time of a call stays within its limit, and its signature is written *)
(* with characters that a URL takes as they are.                           *)
ApiRequestTypeOK ==
  /\ phase \in {"idle", "open", "performed", "result"}
  /\ call_no \in 0 .. MaxCalls
  /\ req \in Requests \cup {NoRequest}
  /\ elapsed \in 0 .. req.expired_seconds
  /\ ToSet(url.signature) \subseteq Alphanumeric \cup {37, 46, 47}
  /\ \A i \in DOMAIN served : served[i] \in 1 .. call_no
  /\ \A r \in net : r.no \in 1 .. call_no
  /\ answer.pieces \in 0 .. Pieces /\ Len(sBuffer) <= Pieces
  /\ result \in {"none", "value", "throw"}

(* With the right secret key the exchange computes the signature that it   *)
(* was sent, for every request of the plugin: the parameters are signed in *)
(* the order and in the encoding in which the exchange will put them, and  *)
(* base64 comes through the URL, its "+" too.                              *)
RequestVerifies ==
  \A r \in net : r.url.mac.secret = TheSecretKey => Verified(r.url)

(* A caller that gets a value gets the whole answer to its own request,    *)
(* which the exchange has executed once: nothing of an answer that was cut *)
(* short, nothing of the answer to an earlier call.                        *)
ValueIsOwnAnswer ==
  result = "value" =>
    /\ \E i \in DOMAIN served : served[i] = call_no
    /\ \A i, j \in DOMAIN served : served[i] = served[j] => i = j
    /\ Len(sBuffer) = Pieces
    /\ \A i \in DOMAIN sBuffer : sBuffer[i].no = call_no

(* A call ends, whatever the exchange does, if its limit is not 0: that is *)
(* what the loop, which has one thread, relies on.                         *)
CallEnds == Expired > 0 => (phase = "open" ~> phase = "idle")

=============================================================================
