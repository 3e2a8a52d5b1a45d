------------------------- MODULE McpFlowStores_proofs -------------------------
(***************************************************************************)
(* Every flow store of McpFlowStores keeps the contract of flow stores,    *)
(* for any flow ids, bindings, lifetimes and retention, and for any        *)
(* latency of Firestore that its margin covers.                            *)
(*                                                                         *)
(* A store is right if what it still holds of a flow says what was handed  *)
(* out: the same deadline and binding, and "active" only while nobody has  *)
(* claimed.  It may forget an id only after the deadline has passed.       *)
(***************************************************************************)
EXTENDS McpFlowStores, TLAPS

MemoryKeeps(f) ==
  /\ f \in DOMAIN flows =>
       /\ flows[f].left = tokens[f].left
       /\ flows[f].binding = tokens[f].binding
       /\ tokens[f].wins = 0
  /\ f \in DOMAIN consumed => consumed[f] = tokens[f].left
  /\ tokens[f].left > 0 => f \in DOMAIN flows \cup DOMAIN consumed

RedisKeeps(f) ==
  /\ records[f].left = tokens[f].left
  /\ bindings[f].left = tokens[f].left
  /\ records[f].left > 0 => bindings[f].binding = tokens[f].binding
  /\ records[f].payload => tokens[f].wins = 0

FirestoreKeeps(f) ==
  /\ documents[f].status = "absent" => tokens[f].left = 0
  /\ documents[f].status # "absent" =>
       /\ documents[f].left = tokens[f].left
       /\ documents[f].binding = tokens[f].binding
       /\ documents[f].left <= documents[f].deleteIn
  /\ documents[f].status = "active" => tokens[f].wins = 0

CloudflareKeeps(f) ==
  /\ rows[f].status = "absent" => tokens[f].left = 0
  /\ rows[f].status # "absent" =>
       /\ rows[f].left = tokens[f].left
       /\ rows[f].binding = tokens[f].binding
       /\ rows[f].left <= rows[f].retain
  /\ rows[f].status = "active" => tokens[f].wins = 0

Keeps(f) ==
  /\ provider = "memory" => MemoryKeeps(f)
  /\ provider = "redis" => RedisKeeps(f)
  /\ provider = "firestore" => FirestoreKeeps(f)
  /\ provider = "cloudflare" => CloudflareKeeps(f)

FlowInv == FlowStoresTypeOK /\ \A f \in FlowIds : Keeps(f)
-----------------------------------------------------------------------------
(* Guards: the guard of each store implies that of the contract.           *)

(* A call of suspend that a store answers hands out an id that stands for  *)
(* no flow, for a flow that has not expired.  Firestore saw the deadline   *)
(* beyond its margin, and no transaction takes longer than the margin.     *)
LEMMA SuspendGuard ==
  ASSUME FlowInv,
         NEW f \in FlowIds, NEW binding \in Bindings, NEW left \in Lifetimes \cup {0},
         Suspend(f, binding, left)
  PROVE  tokens[f].left = 0 /\ left > 0 /\ left \in Lifetimes
<1>0. /\ left \in Nat /\ (left > 0 => left \in Lifetimes)
      /\ tokens[f].left \in Nat
      /\ Keeps(f)
  BY FlowConstants DEF FlowInv, FlowStoresTypeOK
<1>1. CASE /\ Uses("memory")
           /\ LET record == [binding |-> binding, round |-> 1, left |-> left]
              IN  Memory!CanSuspend(f, record) /\ Memory!StoreFlow(f, record)
  <2>1. left > 0 /\ f \notin DOMAIN Memory!LiveFlows \cup DOMAIN Memory!HeldIds
    BY <1>1 DEF Memory!CanSuspend
  <2>2. /\ f \in DOMAIN flows => ~ (flows[f].left > 0)
        /\ f \in DOMAIN consumed => ~ (consumed[f] > 0)
    BY <2>1 DEF Memory!LiveFlows, Memory!HeldIds
  <2>3. MemoryKeeps(f)
    BY <1>0, <1>1 DEF Keeps, Uses
  <2>. QED
    BY <1>0, <2>1, <2>2, <2>3 DEF MemoryKeeps
<1>2. CASE Uses("redis") /\ Redis!Suspend(f, binding, left)
  BY <1>0, <1>2 DEF Uses, Keeps, RedisKeeps, Redis!Suspend
<1>3. CASE Uses("firestore") /\ \E age \in 0..MaxLatency : Firestore!Suspend(f, binding, left, age)
  <2>1. PICK age \in 0..MaxLatency : Firestore!Suspend(f, binding, left, age)
    BY <1>3
  <2>2. left > 0
    BY <1>0, <2>1, FlowConstants DEF Firestore!Suspend, Firestore!BeyondMargin
  <2>. QED
    BY <1>0, <1>3, <2>1, <2>2 DEF Uses, Keeps, FirestoreKeeps, Firestore!Suspend
<1>4. CASE Uses("cloudflare") /\ Cloudflare!Suspend(f, binding, left)
  BY <1>0, <1>4 DEF Uses, Keeps, CloudflareKeeps, Cloudflare!Suspend
<1>. QED
  BY <1>1, <1>2, <1>3, <1>4 DEF Suspend

(* A call of consume that returns a flow finds its token unexpired, with   *)
(* its binding, and never claimed before.                                  *)
LEMMA ConsumeGuard ==
  ASSUME FlowInv, NEW f \in FlowIds, NEW binding \in Bindings, Consume(f, binding)
  PROVE  tokens[f].left > 0 /\ tokens[f].binding = binding /\ tokens[f].wins = 0
<1>0. tokens[f].left \in Nat /\ Keeps(f)
  BY DEF FlowInv, FlowStoresTypeOK
<1>1. CASE Uses("memory") /\ Memory!Matches(f, binding) /\ Memory!TakeFlow(f)
  <2>1. f \in DOMAIN flows /\ flows[f].left > 0 /\ flows[f].binding = binding
    BY <1>1 DEF Memory!Matches, Memory!LiveFlows
  <2>. QED
    BY <1>0, <1>1, <2>1 DEF Uses, Keeps, MemoryKeeps
<1>2. CASE Uses("redis") /\ Redis!Consume(f, binding)
  BY <1>0, <1>2 DEF Uses, Keeps, RedisKeeps, Redis!Consume
<1>3. CASE Uses("firestore") /\ \E age \in 0..MaxLatency : Firestore!Consume(f, binding, age)
  <2>1. PICK age \in 0..MaxLatency : Firestore!Consume(f, binding, age)
    BY <1>3
  <2>2. FirestoreKeeps(f) /\ documents[f].status = "active" /\ documents[f].binding = binding
    BY <1>0, <1>3, <2>1 DEF Uses, Keeps, Firestore!Consume
  <2>3. documents[f].left = tokens[f].left
    BY <2>2 DEF FirestoreKeeps
  <2>4. tokens[f].left > 0
    BY <1>0, <2>1, <2>3, FlowConstants DEF Firestore!Consume, Firestore!BeyondMargin
  <2>. QED
    BY <2>2, <2>4 DEF FirestoreKeeps
<1>4. CASE Uses("cloudflare") /\ Cloudflare!Consume(f, binding)
  BY <1>0, <1>4 DEF Uses, Keeps, CloudflareKeeps, Cloudflare!Consume
<1>. QED
  BY <1>1, <1>2, <1>3, <1>4 DEF Consume
-----------------------------------------------------------------------------
(* Tokens: what each step makes of them, field by field.                   *)

Token == [binding : Bindings \cup {NoBinding}, left : Nat, wins : Nat]

TokensTyped == tokens \in [FlowIds -> Token]

Others(f) == \A g \in FlowIds \ {f} : tokens'[g] = tokens[g]

HandedOut(f, binding, left) ==
  /\ tokens'[f].binding = binding /\ tokens'[f].left = left /\ tokens'[f].wins = 0
  /\ Others(f)

Won(f) ==
  /\ tokens'[f].binding = tokens[f].binding /\ tokens'[f].left = tokens[f].left
  /\ Others(f)

Passed ==
  \A g \in FlowIds :
    /\ tokens'[g].binding = tokens[g].binding /\ tokens'[g].wins = tokens[g].wins
    /\ tokens'[g].left = IF tokens[g].left = 0 THEN 0 ELSE tokens[g].left - 1

(* Suspending hands one token out anew and leaves the others.              *)
LEMMA TokensOfSuspend ==
  ASSUME TokensTyped, NEW f \in FlowIds, NEW binding \in Bindings, NEW left \in Nat,
         tokens' = [tokens EXCEPT ![f] = [binding |-> binding, left |-> left, wins |-> 0]]
  PROVE  TokensTyped' /\ HandedOut(f, binding, left)
BY DEF TokensTyped, Token, HandedOut, Others

(* Consuming counts one more win of one token.                             *)
LEMMA TokensOfConsume ==
  ASSUME TokensTyped, NEW f \in FlowIds, tokens' = [tokens EXCEPT ![f].wins = @ + 1]
  PROVE  TokensTyped' /\ Won(f)
<1>1. tokens[f] \in Token /\ tokens[f].wins + 1 \in Nat
  BY DEF TokensTyped, Token
<1>2. [tokens[f] EXCEPT !.wins = tokens[f].wins + 1] \in Token
  BY <1>1 DEF Token
<1>3. tokens' = [tokens EXCEPT ![f] = [tokens[f] EXCEPT !.wins = tokens[f].wins + 1]]
  OBVIOUS
<1>. QED
  BY <1>1, <1>2, <1>3 DEF TokensTyped, Token, Won, Others

(* Time takes one off what is left of every token.                         *)
LEMMA TokensOfTick ==
  ASSUME TokensTyped, Contract!TimePasses
  PROVE  TokensTyped' /\ Passed
<1>. SUFFICES ASSUME NEW g \in FlowIds
              PROVE  /\ tokens'[g] \in Token
                     /\ tokens'[g].binding = tokens[g].binding
                     /\ tokens'[g].wins = tokens[g].wins
                     /\ tokens'[g].left = IF tokens[g].left = 0 THEN 0 ELSE tokens[g].left - 1
  <2>1. \A h \in FlowIds : tokens'[h] \in Token /\ Passed
    BY DEF Passed
  <2>2. tokens' = [h \in FlowIds |-> tokens'[h]]
    BY DEF Contract!TimePasses
  <2>. QED
    BY <2>1, <2>2 DEF TokensTyped, Passed
<1>. DEFINE after == IF tokens[g].left = 0 THEN 0 ELSE tokens[g].left - 1
<1>1. tokens[g] \in Token
  BY DEF TokensTyped
<1>2. after \in Nat
  BY <1>1 DEF Token
<1>3. tokens'[g] = [tokens[g] EXCEPT !.left = after]
  BY DEF Contract!TimePasses
<1>. HIDE DEF after
<1>4. /\ tokens'[g] \in Token /\ tokens'[g].left = after
      /\ tokens'[g].binding = tokens[g].binding /\ tokens'[g].wins = tokens[g].wins
  BY <1>1, <1>2, <1>3 DEF Token
<1>. QED
  BY <1>4 DEF after
-----------------------------------------------------------------------------
(* Redis keeps its two keys typed and in step with the token.              *)

RedisOK == Redis!TypeOK /\ \A f \in FlowIds : RedisKeeps(f)

(* SUSPEND_FLOW_SCRIPT keeps the two keys in step with the token.          *)
LEMMA RedisSuspendKeeps ==
  ASSUME TokensTyped, RedisOK,
         NEW f \in FlowIds, NEW binding \in Bindings, NEW left \in Nat,
         Redis!Suspend(f, binding, left), HandedOut(f, binding, left)
  PROVE  RedisOK'
<1>1. Redis!TypeOK'
  BY DEF RedisOK, Redis!TypeOK, Redis!Suspend
<1>2. ASSUME NEW g \in FlowIds PROVE RedisKeeps(g)'
  BY <1>2 DEF RedisOK, RedisKeeps, Redis!TypeOK, Redis!Suspend, HandedOut, Others
<1>. QED
  BY <1>1, <1>2 DEF RedisOK

(* So does CONSUME_FLOW_SCRIPT, which empties the payload.                 *)
LEMMA RedisConsumeKeeps ==
  ASSUME TokensTyped, RedisOK, NEW f \in FlowIds, NEW binding \in Bindings,
         Redis!Consume(f, binding), Won(f)
  PROVE  RedisOK'
<1>1. records[f] \in [payload : BOOLEAN, left : Nat]
  BY DEF RedisOK, Redis!TypeOK
<1>2. /\ [records[f] EXCEPT !.payload = FALSE] \in [payload : BOOLEAN, left : Nat]
      /\ [records[f] EXCEPT !.payload = FALSE].left = records[f].left
      /\ ~ [records[f] EXCEPT !.payload = FALSE].payload
  BY <1>1
<1>. DEFINE marked == [records[f] EXCEPT !.payload = FALSE]
<1>3. records' = [records EXCEPT ![f] = marked] /\ bindings' = bindings
  BY DEF Redis!Consume
<1>4. marked \in [payload : BOOLEAN, left : Nat] /\ marked.left = records[f].left /\ ~ marked.payload
  BY <1>2
<1>. HIDE DEF marked
<1>5. Redis!TypeOK'
  BY <1>3, <1>4 DEF RedisOK, Redis!TypeOK
<1>6. ASSUME NEW g \in FlowIds PROVE RedisKeeps(g)'
  BY <1>3, <1>4, <1>6 DEF RedisOK, RedisKeeps, Redis!TypeOK, Won, Others
<1>. QED
  BY <1>5, <1>6 DEF RedisOK

(* Both keys expire in the step in which the token has no time left.       *)
LEMMA RedisTickKeeps ==
  ASSUME TokensTyped, RedisOK, Redis!Tick, Passed
  PROVE  RedisOK'
<1>. DEFINE Record == [payload : BOOLEAN, left : Nat]
            Digest == [binding : Bindings \cup {NoBinding}, left : Nat]
<1>1. ASSUME NEW g \in FlowIds
      PROVE  /\ records'[g] \in Record
             /\ records'[g].left = IF records[g].left <= 1 THEN 0 ELSE records[g].left - 1
             /\ records'[g].payload => records[g].payload
  <2>1. records[g] \in Record
    BY <1>1 DEF RedisOK, Redis!TypeOK
  <2>2. records'[g] = IF records[g].left <= 1 THEN Redis!NoRecord
                      ELSE [records[g] EXCEPT !.left = records[g].left - 1]
    BY <1>1 DEF Redis!Tick
  <2>3. CASE records[g].left <= 1
    BY <2>2, <2>3 DEF Redis!NoRecord
  <2>4. CASE ~ (records[g].left <= 1)
    <3>1. records[g].left - 1 \in Nat
      BY <2>1, <2>4
    <3>. QED
      BY <2>1, <2>2, <2>4, <3>1
  <2>. QED
    BY <2>3, <2>4
<1>2. ASSUME NEW g \in FlowIds
      PROVE  /\ bindings'[g] \in Digest
             /\ bindings'[g].left = IF bindings[g].left <= 1 THEN 0 ELSE bindings[g].left - 1
             /\ bindings'[g].left > 0 => bindings'[g].binding = bindings[g].binding
  <2>1. bindings[g] \in Digest
    BY <1>2 DEF RedisOK, Redis!TypeOK
  <2>2. bindings'[g] = IF bindings[g].left <= 1 THEN Redis!NoDigest
                       ELSE [bindings[g] EXCEPT !.left = bindings[g].left - 1]
    BY <1>2 DEF Redis!Tick
  <2>3. CASE bindings[g].left <= 1
    BY <2>2, <2>3 DEF Redis!NoDigest
  <2>4. CASE ~ (bindings[g].left <= 1)
    <3>1. bindings[g].left - 1 \in Nat
      BY <2>1, <2>4
    <3>. QED
      BY <2>1, <2>2, <2>4, <3>1
  <2>. QED
    BY <2>3, <2>4
<1>3. records' = [g \in FlowIds |-> records'[g]] /\ bindings' = [g \in FlowIds |-> bindings'[g]]
  BY DEF Redis!Tick
<1>4. Redis!TypeOK'
  BY <1>1, <1>2, <1>3 DEF Redis!TypeOK
<1>5. ASSUME NEW g \in FlowIds PROVE RedisKeeps(g)'
  <2>1. /\ records[g].left \in Nat /\ bindings[g].left \in Nat /\ tokens[g].left \in Nat
        /\ RedisKeeps(g)
    BY <1>5 DEF RedisOK, Redis!TypeOK, TokensTyped, Token
  <2>2. records'[g].left = tokens'[g].left /\ bindings'[g].left = tokens'[g].left
    BY <1>1, <1>2, <1>5, <2>1 DEF RedisKeeps, Passed
  <2>3. records'[g].left > 0 => bindings'[g].binding = tokens'[g].binding
    BY <1>1, <1>2, <1>5, <2>1, <2>2 DEF RedisKeeps, Passed
  <2>4. records'[g].payload => tokens'[g].wins = 0
    BY <1>1, <1>5, <2>1 DEF RedisKeeps, Passed
  <2>. QED
    BY <2>2, <2>3, <2>4 DEF RedisKeeps
<1>. QED
  BY <1>4, <1>5 DEF RedisOK
-----------------------------------------------------------------------------
(* Firestore keeps its documents typed and in step with the token.         *)

Document == [status : {"absent", "active", "consumed"},
             binding : Bindings \cup {NoBinding}, left : Nat, deleteIn : Nat]

FirestoreOK == Firestore!TypeOK /\ \A f \in FlowIds : FirestoreKeeps(f)

(* suspend stores what was handed out, and nothing may erase it before its *)
(* flow has expired.                                                       *)
LEMMA FirestoreSuspendKeeps ==
  ASSUME TokensTyped, FirestoreOK,
         NEW f \in FlowIds, NEW binding \in Bindings, NEW left \in Nat, NEW age \in 0..MaxLatency,
         Firestore!Suspend(f, binding, left, age), HandedOut(f, binding, left)
  PROVE  FirestoreOK'
<1>. DEFINE new == [status |-> "active", binding |-> binding, left |-> left,
                    deleteIn |-> left + Retention]
<1>1. /\ new \in Document /\ new.status = "active" /\ new.binding = binding
      /\ new.left = left /\ new.left <= new.deleteIn
  BY FlowConstants DEF Document
<1>2. documents' = [documents EXCEPT ![f] = new]
  BY DEF Firestore!Suspend
<1>. HIDE DEF new
<1>3. Firestore!TypeOK'
  BY <1>1, <1>2 DEF FirestoreOK, Firestore!TypeOK, Document
<1>4. ASSUME NEW g \in FlowIds PROVE FirestoreKeeps(g)'
  BY <1>1, <1>2, <1>4 DEF FirestoreOK, FirestoreKeeps, Firestore!TypeOK, HandedOut, Others
<1>. QED
  BY <1>3, <1>4 DEF FirestoreOK

(* consume leaves a marker with the deadlines of its flow.                 *)
LEMMA FirestoreConsumeKeeps ==
  ASSUME TokensTyped, FirestoreOK, NEW f \in FlowIds, NEW binding \in Bindings, NEW age \in 0..MaxLatency,
         Firestore!Consume(f, binding, age), Won(f)
  PROVE  FirestoreOK'
<1>. DEFINE marked == [documents[f] EXCEPT !.status = "consumed"]
<1>1. documents[f] \in Document /\ documents[f].status = "active"
  BY DEF FirestoreOK, Firestore!TypeOK, Document, Firestore!Consume
<1>2. /\ marked \in Document /\ marked.status = "consumed"
      /\ marked.binding = documents[f].binding /\ marked.left = documents[f].left
      /\ marked.deleteIn = documents[f].deleteIn
  BY <1>1 DEF Document
<1>3. documents' = [documents EXCEPT ![f] = marked]
  BY DEF Firestore!Consume
<1>. HIDE DEF marked
<1>4. Firestore!TypeOK'
  BY <1>2, <1>3 DEF FirestoreOK, Firestore!TypeOK, Document
<1>5. ASSUME NEW g \in FlowIds PROVE FirestoreKeeps(g)'
  BY <1>1, <1>2, <1>3, <1>5 DEF FirestoreOK, FirestoreKeeps, Firestore!TypeOK, Won, Others
<1>. QED
  BY <1>4, <1>5 DEF FirestoreOK

(* What is erased has expired.                                             *)
LEMMA FirestoreDeleteKeeps ==
  ASSUME TokensTyped, FirestoreOK, NEW f \in FlowIds, Firestore!Delete(f), UNCHANGED tokens
  PROVE  FirestoreOK'
<1>1. Firestore!NoDocument \in Document /\ Firestore!NoDocument.status = "absent"
  BY DEF Document, Firestore!NoDocument
<1>2. documents' = [documents EXCEPT ![f] = Firestore!NoDocument]
  BY DEF Firestore!Delete
<1>3. Firestore!TypeOK'
  BY <1>1, <1>2 DEF FirestoreOK, Firestore!TypeOK, Document
<1>4. tokens[f].left = 0
  <2>1. documents[f] \in Document /\ tokens[f] \in Token /\ FirestoreKeeps(f) /\ documents[f].deleteIn = 0
    BY DEF FirestoreOK, Firestore!TypeOK, Document, Firestore!Delete, TokensTyped
  <2>. QED
    BY <2>1 DEF FirestoreKeeps, Document, Token
<1>5. ASSUME NEW g \in FlowIds PROVE FirestoreKeeps(g)'
  BY <1>1, <1>2, <1>4, <1>5 DEF FirestoreOK, FirestoreKeeps, Firestore!TypeOK
<1>. QED
  BY <1>3, <1>5 DEF FirestoreOK

(* The deadlines of store and token pass together.                         *)
LEMMA FirestoreTickKeeps ==
  ASSUME TokensTyped, FirestoreOK, Firestore!Tick, Passed
  PROVE  FirestoreOK'
<1>1. ASSUME NEW g \in FlowIds
      PROVE  /\ documents'[g] \in Document
             /\ documents'[g].status = documents[g].status /\ documents'[g].binding = documents[g].binding
             /\ documents'[g].left = IF documents[g].left = 0 THEN 0 ELSE documents[g].left - 1
             /\ documents'[g].deleteIn = IF documents[g].deleteIn = 0 THEN 0 ELSE documents[g].deleteIn - 1
  <2>. DEFINE left == IF documents[g].left = 0 THEN 0 ELSE documents[g].left - 1
              deleteIn == IF documents[g].deleteIn = 0 THEN 0 ELSE documents[g].deleteIn - 1
  <2>1. documents[g] \in Document
    BY <1>1 DEF FirestoreOK, Firestore!TypeOK, Document
  <2>2. left \in Nat /\ deleteIn \in Nat
    BY <2>1 DEF Document
  <2>3. documents'[g] = [documents[g] EXCEPT !.left = left, !.deleteIn = deleteIn]
    BY <1>1 DEF Firestore!Tick
  <2>. HIDE DEF left, deleteIn
  <2>4. /\ documents'[g] \in Document
        /\ documents'[g].status = documents[g].status /\ documents'[g].binding = documents[g].binding
        /\ documents'[g].left = left /\ documents'[g].deleteIn = deleteIn
    BY <2>1, <2>2, <2>3 DEF Document
  <2>. QED
    BY <2>4 DEF left, deleteIn
<1>2. documents' = [g \in FlowIds |-> documents'[g]]
  BY DEF Firestore!Tick
<1>3. Firestore!TypeOK'
  BY <1>1, <1>2 DEF FirestoreOK, Firestore!TypeOK, Document
<1>4. ASSUME NEW g \in FlowIds PROVE FirestoreKeeps(g)'
  <2>1. documents[g] \in Document /\ tokens[g] \in Token /\ FirestoreKeeps(g)
    BY <1>4 DEF FirestoreOK, Firestore!TypeOK, Document, TokensTyped
  <2>. QED
    BY <1>1, <1>4, <2>1 DEF FirestoreKeeps, Passed, Document, Token
<1>. QED
  BY <1>3, <1>4 DEF FirestoreOK
-----------------------------------------------------------------------------
(* Cloudflare keeps its rows typed and in step with the token.             *)

Row == [status : {"absent", "active", "consumed"},
        binding : Bindings \cup {NoBinding}, left : Nat, retain : Nat]

CloudflareOK == Cloudflare!TypeOK /\ \A f \in FlowIds : CloudflareKeeps(f)

(* suspend stores what was handed out, and nothing may erase it before its *)
(* flow has expired.                                                       *)
LEMMA CloudflareSuspendKeeps ==
  ASSUME TokensTyped, CloudflareOK,
         NEW f \in FlowIds, NEW binding \in Bindings, NEW left \in Nat,
         Cloudflare!Suspend(f, binding, left), HandedOut(f, binding, left)
  PROVE  CloudflareOK'
<1>. DEFINE new == [status |-> "active", binding |-> binding, left |-> left,
                    retain |-> left + Retention]
<1>1. /\ new \in Row /\ new.status = "active" /\ new.binding = binding
      /\ new.left = left /\ new.left <= new.retain
  BY FlowConstants DEF Row
<1>2. rows' = [rows EXCEPT ![f] = new] /\ alarms' \in [FlowIds -> BOOLEAN]
  BY DEF Cloudflare!Suspend, CloudflareOK, Cloudflare!TypeOK
<1>. HIDE DEF new
<1>3. Cloudflare!TypeOK'
  BY <1>1, <1>2 DEF CloudflareOK, Cloudflare!TypeOK, Row
<1>4. ASSUME NEW g \in FlowIds PROVE CloudflareKeeps(g)'
  BY <1>1, <1>2, <1>4 DEF CloudflareOK, CloudflareKeeps, Cloudflare!TypeOK, HandedOut, Others
<1>. QED
  BY <1>3, <1>4 DEF CloudflareOK

(* consume leaves a marker with the deadlines of its flow.                 *)
LEMMA CloudflareConsumeKeeps ==
  ASSUME TokensTyped, CloudflareOK, NEW f \in FlowIds, NEW binding \in Bindings,
         Cloudflare!Consume(f, binding), Won(f)
  PROVE  CloudflareOK'
<1>. DEFINE marked == [rows[f] EXCEPT !.status = "consumed"]
<1>1. rows[f] \in Row /\ rows[f].status = "active"
  BY DEF CloudflareOK, Cloudflare!TypeOK, Row, Cloudflare!Consume
<1>2. /\ marked \in Row /\ marked.status = "consumed"
      /\ marked.binding = rows[f].binding /\ marked.left = rows[f].left
      /\ marked.retain = rows[f].retain
  BY <1>1 DEF Row
<1>3. rows' = [rows EXCEPT ![f] = marked] /\ alarms' = alarms
  BY DEF Cloudflare!Consume
<1>. HIDE DEF marked
<1>4. Cloudflare!TypeOK'
  BY <1>2, <1>3 DEF CloudflareOK, Cloudflare!TypeOK, Row
<1>5. ASSUME NEW g \in FlowIds PROVE CloudflareKeeps(g)'
  BY <1>1, <1>2, <1>3, <1>5 DEF CloudflareOK, CloudflareKeeps, Cloudflare!TypeOK, Won, Others
<1>. QED
  BY <1>4, <1>5 DEF CloudflareOK

(* What is erased has expired.                                             *)
LEMMA CloudflareAlarmKeeps ==
  ASSUME TokensTyped, CloudflareOK, NEW f \in FlowIds, Cloudflare!Alarm(f), UNCHANGED tokens
  PROVE  CloudflareOK'
<1>1. Cloudflare!NoRow \in Row /\ Cloudflare!NoRow.status = "absent"
  BY DEF Row, Cloudflare!NoRow
<1>2. rows' = [rows EXCEPT ![f] = Cloudflare!NoRow] /\ alarms' \in [FlowIds -> BOOLEAN]
  BY DEF Cloudflare!Alarm, CloudflareOK, Cloudflare!TypeOK
<1>3. Cloudflare!TypeOK'
  BY <1>1, <1>2 DEF CloudflareOK, Cloudflare!TypeOK, Row
<1>4. tokens[f].left = 0
  <2>1. rows[f] \in Row /\ tokens[f] \in Token /\ CloudflareKeeps(f) /\ rows[f].retain = 0
    BY DEF CloudflareOK, Cloudflare!TypeOK, Row, Cloudflare!Alarm, TokensTyped
  <2>. QED
    BY <2>1 DEF CloudflareKeeps, Row, Token
<1>5. ASSUME NEW g \in FlowIds PROVE CloudflareKeeps(g)'
  BY <1>1, <1>2, <1>4, <1>5 DEF CloudflareOK, CloudflareKeeps, Cloudflare!TypeOK
<1>. QED
  BY <1>3, <1>5 DEF CloudflareOK

(* The deadlines of store and token pass together.                         *)
LEMMA CloudflareTickKeeps ==
  ASSUME TokensTyped, CloudflareOK, Cloudflare!Tick, Passed
  PROVE  CloudflareOK'
<1>1. ASSUME NEW g \in FlowIds
      PROVE  /\ rows'[g] \in Row
             /\ rows'[g].status = rows[g].status /\ rows'[g].binding = rows[g].binding
             /\ rows'[g].left = IF rows[g].left = 0 THEN 0 ELSE rows[g].left - 1
             /\ rows'[g].retain = IF rows[g].retain = 0 THEN 0 ELSE rows[g].retain - 1
  <2>. DEFINE left == IF rows[g].left = 0 THEN 0 ELSE rows[g].left - 1
              retain == IF rows[g].retain = 0 THEN 0 ELSE rows[g].retain - 1
  <2>1. rows[g] \in Row
    BY <1>1 DEF CloudflareOK, Cloudflare!TypeOK, Row
  <2>2. left \in Nat /\ retain \in Nat
    BY <2>1 DEF Row
  <2>3. rows'[g] = [rows[g] EXCEPT !.left = left, !.retain = retain]
    BY <1>1 DEF Cloudflare!Tick
  <2>. HIDE DEF left, retain
  <2>4. /\ rows'[g] \in Row
        /\ rows'[g].status = rows[g].status /\ rows'[g].binding = rows[g].binding
        /\ rows'[g].left = left /\ rows'[g].retain = retain
    BY <2>1, <2>2, <2>3 DEF Row
  <2>. QED
    BY <2>4 DEF left, retain
<1>2. rows' = [g \in FlowIds |-> rows'[g]] /\ alarms' = alarms
  BY DEF Cloudflare!Tick
<1>3. Cloudflare!TypeOK'
  BY <1>1, <1>2 DEF CloudflareOK, Cloudflare!TypeOK, Row
<1>4. ASSUME NEW g \in FlowIds PROVE CloudflareKeeps(g)'
  <2>1. rows[g] \in Row /\ tokens[g] \in Token /\ CloudflareKeeps(g)
    BY <1>4 DEF CloudflareOK, Cloudflare!TypeOK, Row, TokensTyped
  <2>. QED
    BY <1>1, <1>4, <2>1 DEF CloudflareKeeps, Passed, Row, Token
<1>. QED
  BY <1>3, <1>4 DEF CloudflareOK
-----------------------------------------------------------------------------
(* The in-process store keeps its two maps typed and in step with the      *)
(* token, although every call prunes them.                                 *)

MemoryOK == Memory!FlowTypeOK /\ \A f \in FlowIds : MemoryKeeps(f)

(* Pruning drops an id only when its flow has expired.                     *)
LEMMA PruningKeeps ==
  ASSUME TokensTyped, MemoryOK
  PROVE  /\ DOMAIN Memory!LiveFlows \subseteq DOMAIN flows
         /\ DOMAIN Memory!HeldIds \subseteq DOMAIN consumed
         /\ \A g \in DOMAIN Memory!LiveFlows : Memory!LiveFlows[g] = flows[g]
         /\ \A g \in DOMAIN Memory!HeldIds : Memory!HeldIds[g] = consumed[g]
         /\ \A g \in FlowIds :
              tokens[g].left > 0 => g \in DOMAIN Memory!LiveFlows \cup DOMAIN Memory!HeldIds
<1>1. ASSUME NEW g \in FlowIds, tokens[g].left > 0
      PROVE  g \in DOMAIN Memory!LiveFlows \cup DOMAIN Memory!HeldIds
  <2>1. MemoryKeeps(g)
    BY <1>1 DEF MemoryOK
  <2>. QED
    BY <1>1, <2>1 DEF MemoryKeeps, Memory!LiveFlows, Memory!HeldIds
<1>. QED
  BY <1>1 DEF Memory!LiveFlows, Memory!HeldIds

(* suspend adds an id that was handed out.                                 *)
LEMMA MemorySuspendKeeps ==
  ASSUME TokensTyped, MemoryOK,
         NEW f \in FlowIds, NEW binding \in Bindings, NEW left \in Nat,
         Memory!CanSuspend(f, [binding |-> binding, round |-> 1, left |-> left]),
         Memory!StoreFlow(f, [binding |-> binding, round |-> 1, left |-> left]),
         HandedOut(f, binding, left)
  PROVE  MemoryOK'
<1>. DEFINE new == [binding |-> binding, round |-> 1, left |-> left]
            L == Memory!LiveFlows
            H == Memory!HeldIds
<1>1. new \in Memory!FlowRecord /\ new.binding = binding /\ new.left = left
  BY DEF Memory!FlowRecord
<1>2. /\ flows' = [g \in DOMAIN L \cup {f} |-> IF g = f THEN new ELSE L[g]]
      /\ consumed' = [g \in DOMAIN H |-> H[g]]
      /\ f \notin DOMAIN L \cup DOMAIN H
  BY DEF Memory!StoreFlow, Memory!CanSuspend, Memory!HeldIds
<1>3. /\ DOMAIN L \subseteq DOMAIN flows /\ DOMAIN H \subseteq DOMAIN consumed
      /\ \A g \in DOMAIN L : L[g] = flows[g]
      /\ \A g \in DOMAIN H : H[g] = consumed[g]
      /\ \A g \in FlowIds : tokens[g].left > 0 => g \in DOMAIN L \cup DOMAIN H
  BY PruningKeeps
<1>. HIDE DEF new, L, H
<1>4. Memory!FlowTypeOK'
  BY <1>1, <1>2, <1>3 DEF MemoryOK, Memory!FlowTypeOK, Memory!FlowRecord
<1>5. ASSUME NEW g \in FlowIds PROVE MemoryKeeps(g)'
  BY <1>1, <1>2, <1>3, <1>5 DEF MemoryOK, MemoryKeeps, HandedOut, Others
<1>. QED
  BY <1>4, <1>5 DEF MemoryOK

(* consume moves an id from the flows to the markers.                      *)
LEMMA MemoryConsumeKeeps ==
  ASSUME TokensTyped, MemoryOK, NEW f \in FlowIds, NEW binding \in Bindings,
         Memory!Matches(f, binding), Memory!TakeFlow(f), Won(f)
  PROVE  MemoryOK'
<1>. DEFINE L == Memory!LiveFlows
            H == Memory!HeldIds
<1>1. /\ flows' = [g \in DOMAIN L \ {f} |-> L[g]]
      /\ consumed' = [g \in DOMAIN H \cup {f} |-> IF g = f THEN L[f].left ELSE H[g]]
      /\ f \in DOMAIN L
  BY DEF Memory!TakeFlow, Memory!Matches
<1>2. /\ DOMAIN L \subseteq DOMAIN flows /\ DOMAIN H \subseteq DOMAIN consumed
      /\ \A g \in DOMAIN L : L[g] = flows[g]
      /\ \A g \in DOMAIN H : H[g] = consumed[g]
      /\ \A g \in FlowIds : tokens[g].left > 0 => g \in DOMAIN L \cup DOMAIN H
  BY PruningKeeps
<1>. HIDE DEF L, H
<1>3. Memory!FlowTypeOK'
  BY <1>1, <1>2 DEF MemoryOK, Memory!FlowTypeOK, Memory!FlowRecord
<1>4. ASSUME NEW g \in FlowIds PROVE MemoryKeeps(g)'
  BY <1>1, <1>2, <1>4 DEF MemoryOK, MemoryKeeps, Won, Others
<1>. QED
  BY <1>3, <1>4 DEF MemoryOK

(* So does a refused call, which only prunes.                              *)
LEMMA MemoryPruneKeeps ==
  ASSUME TokensTyped, MemoryOK, Memory!PruneOnly, UNCHANGED tokens
  PROVE  MemoryOK'
<1>1. /\ \A g \in DOMAIN flows' : g \in DOMAIN flows /\ flows'[g] = flows[g]
      /\ \A g \in DOMAIN consumed' : g \in DOMAIN consumed /\ consumed'[g] = consumed[g]
      /\ \A g \in FlowIds : tokens[g].left > 0 => g \in DOMAIN flows' \cup DOMAIN consumed'
  BY PruningKeeps DEF Memory!PruneOnly
<1>2. flows' = [g \in DOMAIN flows' |-> flows'[g]] /\ consumed' = [g \in DOMAIN consumed' |-> consumed'[g]]
  BY DEF Memory!PruneOnly, Memory!LiveFlows, Memory!HeldIds
<1>3. Memory!FlowTypeOK'
  BY <1>1, <1>2 DEF MemoryOK, Memory!FlowTypeOK
<1>4. ASSUME NEW g \in FlowIds PROVE MemoryKeeps(g)'
  BY <1>1, <1>4 DEF MemoryOK, MemoryKeeps
<1>. QED
  BY <1>3, <1>4 DEF MemoryOK

(* The deadlines of flows, markers and tokens pass together.               *)
LEMMA MemoryTickKeeps ==
  ASSUME TokensTyped, MemoryOK, Memory!FlowTick, Passed
  PROVE  MemoryOK'
<1>1. /\ DOMAIN flows' = DOMAIN flows /\ DOMAIN consumed' = DOMAIN consumed
      /\ flows' = [g \in DOMAIN flows |-> flows'[g]]
      /\ consumed' = [g \in DOMAIN consumed |-> consumed'[g]]
  BY DEF Memory!FlowTick
<1>2. ASSUME NEW g \in DOMAIN flows
      PROVE  /\ flows'[g] \in Memory!FlowRecord
             /\ flows'[g].binding = flows[g].binding
             /\ flows'[g].left = Memory!Less(flows[g].left)
  <2>1. flows[g] \in Memory!FlowRecord
    BY <1>2 DEF MemoryOK, Memory!FlowTypeOK
  <2>2. Memory!Less(flows[g].left) \in Nat
    BY <2>1 DEF Memory!FlowRecord, Memory!Less
  <2>3. flows'[g] = [flows[g] EXCEPT !.left = Memory!Less(flows[g].left)]
    BY <1>2 DEF Memory!FlowTick
  <2>. QED
    BY <2>1, <2>2, <2>3 DEF Memory!FlowRecord
<1>3. ASSUME NEW g \in DOMAIN consumed
      PROVE  consumed'[g] \in Nat /\ consumed'[g] = Memory!Less(consumed[g])
  <2>1. consumed[g] \in Nat
    BY <1>3 DEF MemoryOK, Memory!FlowTypeOK
  <2>2. consumed'[g] = Memory!Less(consumed[g])
    BY <1>3 DEF Memory!FlowTick
  <2>. QED
    BY <2>1, <2>2 DEF Memory!Less
<1>4. Memory!FlowTypeOK'
  BY <1>1, <1>2, <1>3 DEF MemoryOK, Memory!FlowTypeOK
<1>5. ASSUME NEW g \in FlowIds PROVE MemoryKeeps(g)'
  <2>1. tokens[g].left \in Nat /\ MemoryKeeps(g)
    BY <1>5 DEF MemoryOK, TokensTyped, Token
  <2>2. tokens'[g].left = Memory!Less(tokens[g].left)
    BY <1>5 DEF Passed, Memory!Less
  <2>3. tokens'[g].left > 0 => tokens[g].left > 0
    BY <2>1, <2>2 DEF Memory!Less
  <2>. QED
    BY <1>1, <1>2, <1>3, <1>5, <2>1, <2>2, <2>3 DEF MemoryKeeps, Passed
<1>. QED
  BY <1>4, <1>5 DEF MemoryOK
-----------------------------------------------------------------------------
(* The deployment: its store keeps the contract, the others are not used.  *)

Types == Memory!FlowTypeOK /\ Redis!TypeOK /\ Firestore!TypeOK /\ Cloudflare!TypeOK

(* What the stores in use and not in use say of FlowInv.                   *)
LEMMA FlowInvParts ==
  FlowInv <=> /\ provider \in Providers /\ TokensTyped /\ Types
              /\ provider = "memory" => MemoryOK
              /\ provider = "redis" => RedisOK
              /\ provider = "firestore" => FirestoreOK
              /\ provider = "cloudflare" => CloudflareOK
BY DEF FlowInv, FlowStoresTypeOK, TokensTyped, Token, Types, Keeps,
       MemoryOK, RedisOK, FirestoreOK, CloudflareOK

(* The stores that are not used stay typed.                                *)
LEMMA UnusedStoresTyped ==
  ASSUME Types, NEW name \in Providers, Uses(name)
  PROVE  /\ name = "memory" \/ Memory!FlowTypeOK'
         /\ name = "redis" \/ Redis!TypeOK'
         /\ name = "firestore" \/ Firestore!TypeOK'
         /\ name = "cloudflare" \/ Cloudflare!TypeOK'
BY DEF Types, Uses, memoryVars, redisVars, cloudflareVars,
       Memory!FlowTypeOK, Memory!FlowRecord, Redis!TypeOK, Firestore!TypeOK, Cloudflare!TypeOK

(* So a step is right if it is right for the store that takes it.          *)
LEMMA StoreStep ==
  ASSUME FlowInv, TokensTyped', NEW name \in Providers, Uses(name),
         name = "memory" => MemoryOK',
         name = "redis" => RedisOK',
         name = "firestore" => FirestoreOK',
         name = "cloudflare" => CloudflareOK'
  PROVE  FlowInv'
<1>1. Types /\ provider = name /\ provider' = name
  BY FlowInvParts DEF Uses
<1>2. Types'
  BY <1>1, UnusedStoresTyped DEF Types, MemoryOK, RedisOK, FirestoreOK, CloudflareOK
<1>3. (FlowInv <=> /\ provider \in Providers /\ TokensTyped /\ Types
                   /\ provider = "memory" => MemoryOK
                   /\ provider = "redis" => RedisOK
                   /\ provider = "firestore" => FirestoreOK
                   /\ provider = "cloudflare" => CloudflareOK)'
  BY FlowInvParts, PTL
<1>. QED
  BY <1>1, <1>2, <1>3

(* Suspending preserves the invariant, whichever store is asked.           *)
LEMMA SuspendKeeps ==
  ASSUME FlowInv,
         NEW f \in FlowIds, NEW binding \in Bindings, NEW left \in Lifetimes \cup {0},
         Suspend(f, binding, left)
  PROVE  FlowInv'
<1>1. left \in Nat /\ TokensTyped
  BY FlowConstants, FlowInvParts
<1>2. TokensTyped' /\ HandedOut(f, binding, left)
  BY <1>1, TokensOfSuspend DEF Suspend
<1>3. CASE /\ Uses("memory")
           /\ LET record == [binding |-> binding, round |-> 1, left |-> left]
              IN  Memory!CanSuspend(f, record) /\ Memory!StoreFlow(f, record)
  <2>1. MemoryOK'
    BY <1>1, <1>2, <1>3, FlowInvParts, MemorySuspendKeeps DEF Uses
  <2>. QED
    BY <1>2, <1>3, <2>1, StoreStep DEF Providers
<1>4. CASE Uses("redis") /\ Redis!Suspend(f, binding, left)
  <2>1. RedisOK'
    BY <1>1, <1>2, <1>4, FlowInvParts, RedisSuspendKeeps DEF Uses
  <2>. QED
    BY <1>2, <1>4, <2>1, StoreStep DEF Providers
<1>5. CASE Uses("firestore") /\ \E age \in 0..MaxLatency : Firestore!Suspend(f, binding, left, age)
  <2>1. FirestoreOK'
    BY <1>1, <1>2, <1>5, FlowInvParts, FirestoreSuspendKeeps DEF Uses
  <2>. QED
    BY <1>2, <1>5, <2>1, StoreStep DEF Providers
<1>6. CASE Uses("cloudflare") /\ Cloudflare!Suspend(f, binding, left)
  <2>1. CloudflareOK'
    BY <1>1, <1>2, <1>6, FlowInvParts, CloudflareSuspendKeeps DEF Uses
  <2>. QED
    BY <1>2, <1>6, <2>1, StoreStep DEF Providers
<1>. QED
  BY <1>3, <1>4, <1>5, <1>6 DEF Suspend

(* So does consuming.                                                      *)
LEMMA ConsumeKeeps ==
  ASSUME FlowInv, NEW f \in FlowIds, NEW binding \in Bindings, Consume(f, binding)
  PROVE  FlowInv'
<1>1. TokensTyped
  BY FlowInvParts
<1>2. TokensTyped' /\ Won(f)
  BY <1>1, TokensOfConsume DEF Consume
<1>3. CASE Uses("memory") /\ Memory!Matches(f, binding) /\ Memory!TakeFlow(f)
  <2>1. MemoryOK'
    BY <1>1, <1>2, <1>3, FlowInvParts, MemoryConsumeKeeps DEF Uses
  <2>. QED
    BY <1>2, <1>3, <2>1, StoreStep DEF Providers
<1>4. CASE Uses("redis") /\ Redis!Consume(f, binding)
  <2>1. RedisOK'
    BY <1>1, <1>2, <1>4, FlowInvParts, RedisConsumeKeeps DEF Uses
  <2>. QED
    BY <1>2, <1>4, <2>1, StoreStep DEF Providers
<1>5. CASE Uses("firestore") /\ \E age \in 0..MaxLatency : Firestore!Consume(f, binding, age)
  <2>1. FirestoreOK'
    BY <1>1, <1>2, <1>5, FlowInvParts, FirestoreConsumeKeeps DEF Uses
  <2>. QED
    BY <1>2, <1>5, <2>1, StoreStep DEF Providers
<1>6. CASE Uses("cloudflare") /\ Cloudflare!Consume(f, binding)
  <2>1. CloudflareOK'
    BY <1>1, <1>2, <1>6, FlowInvParts, CloudflareConsumeKeeps DEF Uses
  <2>. QED
    BY <1>2, <1>6, <2>1, StoreStep DEF Providers
<1>. QED
  BY <1>3, <1>4, <1>5, <1>6 DEF Consume

(* So does pruning.                                                        *)
LEMMA PruneKeeps ==
  ASSUME FlowInv, Prune
  PROVE  FlowInv'
<1>1. Uses("memory") /\ Memory!PruneOnly /\ UNCHANGED tokens /\ TokensTyped
  BY FlowInvParts DEF Prune
<1>2. MemoryOK' /\ TokensTyped'
  BY <1>1, FlowInvParts, MemoryPruneKeeps DEF Uses, TokensTyped
<1>. QED
  BY <1>1, <1>2, StoreStep DEF Providers

(* So does what the durable stores erase in the background.                *)
LEMMA CleanUpKeeps ==
  ASSUME FlowInv, NEW f \in FlowIds, CleanUp(f)
  PROVE  FlowInv'
<1>1. TokensTyped /\ UNCHANGED tokens
  BY FlowInvParts DEF CleanUp
<1>2. TokensTyped'
  BY <1>1 DEF TokensTyped
<1>3. CASE Uses("firestore") /\ Firestore!Delete(f)
  <2>1. FirestoreOK'
    BY <1>1, <1>3, FlowInvParts, FirestoreDeleteKeeps DEF Uses
  <2>. QED
    BY <1>2, <1>3, <2>1, StoreStep DEF Providers
<1>4. CASE Uses("cloudflare") /\ Cloudflare!Alarm(f)
  <2>1. CloudflareOK'
    BY <1>1, <1>4, FlowInvParts, CloudflareAlarmKeeps DEF Uses
  <2>. QED
    BY <1>2, <1>4, <2>1, StoreStep DEF Providers
<1>. QED
  BY <1>3, <1>4 DEF CleanUp

(* So does the passing of time.                                            *)
LEMMA TickKeeps ==
  ASSUME FlowInv, Tick
  PROVE  FlowInv'
<1>1. TokensTyped
  BY FlowInvParts
<1>2. TokensTyped' /\ Passed
  BY <1>1, TokensOfTick DEF Tick
<1>3. CASE Uses("memory") /\ Memory!FlowTick
  <2>1. MemoryOK'
    BY <1>1, <1>2, <1>3, FlowInvParts, MemoryTickKeeps DEF Uses
  <2>. QED
    BY <1>2, <1>3, <2>1, StoreStep DEF Providers
<1>4. CASE Uses("redis") /\ Redis!Tick
  <2>1. RedisOK'
    BY <1>1, <1>2, <1>4, FlowInvParts, RedisTickKeeps DEF Uses
  <2>. QED
    BY <1>2, <1>4, <2>1, StoreStep DEF Providers
<1>5. CASE Uses("firestore") /\ Firestore!Tick
  <2>1. FirestoreOK'
    BY <1>1, <1>2, <1>5, FlowInvParts, FirestoreTickKeeps DEF Uses
  <2>. QED
    BY <1>2, <1>5, <2>1, StoreStep DEF Providers
<1>6. CASE Uses("cloudflare") /\ Cloudflare!Tick
  <2>1. CloudflareOK'
    BY <1>1, <1>2, <1>6, FlowInvParts, CloudflareTickKeeps DEF Uses
  <2>. QED
    BY <1>2, <1>6, <2>1, StoreStep DEF Providers
<1>. QED
  BY <1>3, <1>4, <1>5, <1>6 DEF Tick

(* The empty stores satisfy the invariant.                                 *)
LEMMA InitFlowInv == Init => FlowInv
<1>. SUFFICES ASSUME Init PROVE FlowInv
  OBVIOUS
<1>1. provider \in Providers /\ TokensTyped /\ \A f \in FlowIds : tokens[f].left = 0 /\ tokens[f].wins = 0
  BY DEF Init, TokensTyped, Token
<1>2. MemoryOK
  BY <1>1 DEF Init, MemoryOK, Memory!FlowInit, Memory!FlowTypeOK, Memory!FlowRecord, MemoryKeeps
<1>3. RedisOK
  BY <1>1 DEF Init, RedisOK, Redis!Init, Redis!NoRecord, Redis!NoDigest, Redis!TypeOK, RedisKeeps
<1>4. FirestoreOK
  BY <1>1 DEF Init, FirestoreOK, Firestore!Init, Firestore!NoDocument, Firestore!TypeOK, FirestoreKeeps
<1>5. CloudflareOK
  BY <1>1 DEF Init, CloudflareOK, Cloudflare!Init, Cloudflare!NoRow, Cloudflare!TypeOK, CloudflareKeeps
<1>. QED
  BY <1>1, <1>2, <1>3, <1>4, <1>5, FlowInvParts
     DEF Types, MemoryOK, RedisOK, FirestoreOK, CloudflareOK

(* The invariant is inductive.                                             *)
LEMMA NextFlowInv == FlowInv /\ [Next]_vars => FlowInv'
<1>. SUFFICES ASSUME FlowInv, [Next]_vars PROVE FlowInv'
  OBVIOUS
<1>1. ASSUME NEW f \in FlowIds, NEW binding \in Bindings, NEW left \in Lifetimes \cup {0},
             Suspend(f, binding, left)
      PROVE  FlowInv'
  BY <1>1, SuspendKeeps
<1>2. ASSUME NEW f \in FlowIds, NEW binding \in Bindings, Consume(f, binding)
      PROVE  FlowInv'
  BY <1>2, ConsumeKeeps
<1>3. ASSUME NEW f \in FlowIds, CleanUp(f) PROVE FlowInv'
  BY <1>3, CleanUpKeeps
<1>4. CASE Prune
  BY <1>4, PruneKeeps
<1>5. CASE Tick
  BY <1>5, TickKeeps
<1>6. CASE UNCHANGED vars
  BY <1>6 DEF vars, memoryVars, redisVars, cloudflareVars, FlowInv, FlowStoresTypeOK, Keeps,
     MemoryKeeps, RedisKeeps, FirestoreKeeps, CloudflareKeeps,
     Memory!FlowTypeOK, Memory!FlowRecord, Redis!TypeOK, Firestore!TypeOK, Cloudflare!TypeOK
<1>. QED
  BY <1>1, <1>2, <1>3, <1>4, <1>5, <1>6 DEF Next

(* Every step of a store is a step of the contract, or leaves the tokens.  *)
LEMMA NextContract == FlowInv /\ [Next]_vars => [Contract!ContractNext]_tokens
<1>. SUFFICES ASSUME FlowInv, [Next]_vars PROVE [Contract!ContractNext]_tokens
  OBVIOUS
<1>1. ASSUME NEW f \in FlowIds, NEW binding \in Bindings, NEW left \in Lifetimes \cup {0},
             Suspend(f, binding, left)
      PROVE  Contract!ContractNext
  <2>1. left \in Lifetimes /\ Contract!HandOut(f, binding, left)
    BY <1>1, SuspendGuard DEF Suspend, Contract!HandOut
  <2>. QED
    BY <2>1 DEF Contract!ContractNext
<1>2. ASSUME NEW f \in FlowIds, NEW binding \in Bindings, Consume(f, binding)
      PROVE  Contract!ContractNext
  <2>1. tokens[f].left > 0 /\ tokens[f].binding = binding /\ tokens[f].wins = 0
    BY <1>2, ConsumeGuard
  <2>2. tokens' = [tokens EXCEPT ![f].wins = 1]
    BY <1>2, <2>1 DEF Consume
  <2>3. Contract!Claim(f, binding)
    BY <2>1, <2>2 DEF Contract!Claim
  <2>. QED
    BY <2>3 DEF Contract!ContractNext
<1>3. ASSUME NEW f \in FlowIds, CleanUp(f) PROVE UNCHANGED tokens
  BY <1>3 DEF CleanUp
<1>4. CASE Prune
  BY <1>4 DEF Prune
<1>5. CASE Tick
  BY <1>5 DEF Tick, Contract!ContractNext
<1>6. CASE UNCHANGED vars
  BY <1>6 DEF vars
<1>. QED
  BY <1>1, <1>2, <1>3, <1>4, <1>5, <1>6 DEF Next

(* Whatever the store, its data has its types: FlowStoresTypeOK.           *)
THEOREM FlowStoresTyped == Spec => []FlowStoresTypeOK
<1>1. FlowInv => FlowStoresTypeOK
  BY DEF FlowInv
<1>. QED
  BY <1>1, InitFlowInv, NextFlowInv, PTL DEF Spec

(* Every flow store keeps the contract: an id stands for one flow until it *)
(* expires, and one call at most gets the flow, before it expires and with *)
(* its binding.  For Firestore this rests on its safety margin.            *)
THEOREM FlowStoresKeepContract == Spec => ImplementsContract
<1>1. Init => Contract!ContractInit
  BY DEF Init, Contract!ContractInit
<1>. QED
  BY <1>1, InitFlowInv, NextFlowInv, NextContract, PTL
     DEF Spec, ImplementsContract, Contract!ContractSpec
=============================================================================
