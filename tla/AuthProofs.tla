----------------------------- MODULE AuthProofs -----------------------------
(***************************************************************************)
(* Proofs about sign-in, for every number of phones, codes, workers, rows  *)
(* and tokens and every lifetime and limit: no worker is granted a code or *)
(* a token twice, every session goes back to a code granted for its phone, *)
(* no session outlives its account (IInv); guesses at a code are bounded   *)
(* (TriesIInv), nothing dies but by use, and one call at a time leaves one *)
(* token per sign-in (OneIInv).                                            *)
(***************************************************************************)
EXTENDS Auth, TableLemmas, FiniteSetTheorems

\* What the step a worker is at says about the rest of its call.
LEMMA CallFields ==
    ASSUME TypeOK, NEW w \in Workers
    PROVE  /\ calls[w] \in Call
           /\ At(w, "saveOTP") => calls[w].phone \in Phones
           /\ At(w, "selectOTP") => calls[w].phone \in Phones /\ calls[w].code \in Codes
           /\ At(w, "consumeOTP") => calls[w].phone \in Phones /\ calls[w].row \in OtpIds
           /\ At(w, "upsertUser") => calls[w].phone \in Phones /\ calls[w].login \in Logins
           /\ At(w, "selectRefresh") => calls[w].token \in Tokens
           /\ At(w, "consumeRefresh") => calls[w].token \in Tokens
           /\ At(w, "saveRefresh") => calls[w].user \in UserIds /\ calls[w].login \in Logins
BY DEF TypeOK, Call, Idle, At

\* The next call of a worker, and the obligations IInv puts on it.
CallOK(w, c) ==
    /\ c \in Call
    /\ c.step = "consumeOTP" =>
          codePhone[c.row] = c.phone /\ uses[c.row][w] = 0
    /\ c.step = "consumeRefresh" =>
          login[c.token] # None /\ rotations[c.token][w] = 0
    /\ c.step = "upsertUser" => Backed(c.login, c.phone)
    /\ c.step = "saveRefresh" =>
          userPhone[c.user] \in Phones /\ Backed(c.login, userPhone[c.user])

LEMMA ContinueFacts ==
    ASSUME TypeOK, NEW w \in Workers, NEW c \in Call, Continue(w, c)
    PROVE  /\ calls' \in [Workers -> Call]
           /\ calls'[w] = c
           /\ \A v \in Workers : v # w => calls'[v] = calls[v]
BY DEF TypeOK, Continue

\* A step that only moves a worker on keeps the invariant.
LEMMA CallsOnly ==
    ASSUME IInv, NEW w \in Workers, NEW c, CallOK(w, c), Continue(w, c),
           requests' \in [Phones -> [start : Nat, used : 0..RequestLimit]],
           attempts' \in [Phones -> [start : Nat, used : 0..VerifyLimit]],
           tries' \in [OtpIds -> Nat],
           UNCHANGED <<clock, tables, sweeper, origins, uses, rotations>>
    PROVE  IInv'
<1>1. /\ calls' \in [Workers -> Call]
      /\ calls'[w] = c
      /\ \A v \in Workers : v # w => calls'[v] = calls[v]
  BY ContinueFacts DEF IInv, CallOK
<1>. USE DEF tables, origins
<1>2. TypeOK'
  BY <1>1 DEF IInv, TypeOK
<1>3. CodesTracked'
  BY <1>1 DEF IInv, CodesTracked, At, CallOK
<1>4. TokensTracked'
  BY <1>1 DEF IInv, TokensTracked, At, CallOK
<1>5. AccountsTracked' /\ SessionBacked' /\ NoTokenOfDeletedUser'
  BY DEF IInv, AccountsTracked, SessionBacked, Backed, NoTokenOfDeletedUser, Range
<1>6. CallsBacked'
  BY <1>1 DEF IInv, CallsBacked, Backed, At, CallOK
<1>. QED
  BY <1>2, <1>3, <1>4, <1>5, <1>6 DEF IInv

\* Going idle, or to a step about which nothing is promised, is always fine.
LEMMA PlainCall ==
    ASSUME NEW w, NEW c \in Call,
           c.step \notin {"consumeOTP", "consumeRefresh", "upsertUser", "saveRefresh"}
    PROVE  CallOK(w, c)
BY DEF CallOK

\* A call that is over obliges to nothing.
LEMMA IdleIsPlain == ASSUME NEW w PROVE CallOK(w, Idle)
BY DEF CallOK, Call, Idle

\* An admission by a limiter keeps its windows within the limit.
LEMMA AllowRequestType ==
    ASSUME TypeOK, NEW p \in Phones, AllowRequest(p)
    PROVE  /\ requests' \in [Phones -> [start : Nat, used : 0..RequestLimit]]
           /\ clock' = clock
<1>. USE LimitAssumption
<1>. DEFINE W == [start : Nat, used : 0..RequestLimit]
<1>1. requests \in [Phones -> W] /\ requests[p] \in W /\ clock \in Nat
  BY DEF TypeOK
<1>2. CASE RequestLimiter!Open(p)
  <2>1. PICK s \in 0..clock : requests' = [requests EXCEPT ![p] = [start |-> s, used |-> 1]]
    BY <1>2 DEF RequestLimiter!Open
  <2>2. [start |-> s, used |-> 1] \in W
    BY <1>1
  <2>. QED
    BY <1>1, <1>2, <2>1, <2>2 DEF RequestLimiter!Open
<1>3. CASE RequestLimiter!Admit(p)
  <2>. DEFINE w == [start |-> requests[p].start, used |-> requests[p].used + 1]
  <2>1. requests[p].used + 1 \in 0..RequestLimit /\ w \in W
    BY <1>1, <1>3 DEF RequestLimiter!Admit
  <2>2. requests' = [requests EXCEPT ![p] = w]
    <3>1. requests' = [requests EXCEPT ![p].used = requests[p].used + 1]
      BY <1>3 DEF RequestLimiter!Admit
    <3>2. [requests[p] EXCEPT !.used = requests[p].used + 1] = w
      BY <1>1
    <3>. QED
      BY <3>1, <3>2, Zenon
  <2>. QED
    BY <1>1, <1>3, <2>1, <2>2 DEF RequestLimiter!Admit
<1>. QED
  BY <1>2, <1>3 DEF AllowRequest

LEMMA AllowVerifyType ==
    ASSUME TypeOK, NEW p \in Phones, AllowVerify(p)
    PROVE  /\ attempts' \in [Phones -> [start : Nat, used : 0..VerifyLimit]]
           /\ clock' = clock
<1>. USE LimitAssumption
<1>. DEFINE W == [start : Nat, used : 0..VerifyLimit]
<1>1. attempts \in [Phones -> W] /\ attempts[p] \in W /\ clock \in Nat
  BY DEF TypeOK
<1>2. CASE VerifyLimiter!Open(p)
  <2>1. PICK s \in 0..clock : attempts' = [attempts EXCEPT ![p] = [start |-> s, used |-> 1]]
    BY <1>2 DEF VerifyLimiter!Open
  <2>2. [start |-> s, used |-> 1] \in W
    BY <1>1
  <2>. QED
    BY <1>1, <1>2, <2>1, <2>2 DEF VerifyLimiter!Open
<1>3. CASE VerifyLimiter!Admit(p)
  <2>. DEFINE w == [start |-> attempts[p].start, used |-> attempts[p].used + 1]
  <2>1. attempts[p].used + 1 \in 0..VerifyLimit /\ w \in W
    BY <1>1, <1>3 DEF VerifyLimiter!Admit
  <2>2. attempts' = [attempts EXCEPT ![p] = w]
    <3>1. attempts' = [attempts EXCEPT ![p].used = attempts[p].used + 1]
      BY <1>3 DEF VerifyLimiter!Admit
    <3>2. [attempts[p] EXCEPT !.used = attempts[p].used + 1] = w
      BY <1>1
    <3>. QED
      BY <3>1, <3>2, Zenon
  <2>. QED
    BY <1>1, <1>3, <2>1, <2>2 DEF VerifyLimiter!Admit
<1>. QED
  BY <1>2, <1>3 DEF AllowVerify

-----------------------------------------------------------------------------
(* Steps that leave the tables alone.                                      *)

LEMMA RequestOTPStep ==
    ASSUME IInv, NEW w \in Workers, NEW p \in Phones, RequestOTP(w, p)
    PROVE  IInv'
<1>. DEFINE c == [step |-> "saveOTP", phone |-> p]
<1>1. c \in Call /\ CallOK(w, c)
  BY DEF Call, CallOK
<1>2. /\ requests' \in [Phones -> [start : Nat, used : 0..RequestLimit]]
      /\ clock' = clock
  BY AllowRequestType DEF RequestOTP, IInv
<1>. QED
  BY <1>1, <1>2, CallsOnly DEF RequestOTP, IInv, TypeOK, counts

LEMMA SendSMSStep == ASSUME IInv, NEW w \in Workers, SendSMS(w) PROVE IInv'
BY IdleIsPlain, CallsOnly DEF SendSMS, IInv, TypeOK, counts, limits

LEMMA FailCallStep == ASSUME IInv, NEW w \in Workers, FailCall(w) PROVE IInv'
BY IdleIsPlain, CallsOnly DEF FailCall, IInv, TypeOK, counts, limits

LEMMA VerifyOTPStep ==
    ASSUME IInv, NEW w \in Workers, NEW p \in Phones, NEW c \in Codes, VerifyOTP(w, p, c)
    PROVE  IInv'
<1>1. /\ attempts' \in [Phones -> [start : Nat, used : 0..VerifyLimit]]
      /\ clock' = clock
  BY AllowVerifyType DEF VerifyOTP, IInv
<1>2. tries' \in [OtpIds -> Nat]
  BY DEF VerifyOTP, IInv, TypeOK
<1>3. ASSUME NEW d, CallOK(w, d), Continue(w, d) PROVE IInv'
  BY <1>1, <1>2, <1>3, CallsOnly DEF VerifyOTP, IInv, TypeOK
<1>4. CASE DevCodeMatches(p, c)
  <2>. DEFINE d == [step |-> "upsertUser", phone |-> p, login |-> "dev"]
  <2>1. CallOK(w, d)
    BY <1>4 DEF Call, CallOK, DevCodeMatches, Backed, Logins
  <2>. QED
    BY <1>3, <1>4, <2>1 DEF VerifyOTP
<1>5. CASE ~DevCodeMatches(p, c)
  <2>. DEFINE d == [step |-> "selectOTP", phone |-> p, code |-> c]
  <2>1. CallOK(w, d)
    BY DEF Call, CallOK
  <2>. QED
    BY <1>3, <1>5, <2>1 DEF VerifyOTP
<1>. QED
  BY <1>4, <1>5

\* The row selected is live, so nobody was granted it yet.
LEMMA SelectOTPStep == ASSUME IInv, NEW w \in Workers, SelectOTP(w) PROVE IInv'
<1>1. ASSUME NEW d, CallOK(w, d), Continue(w, d) PROVE IInv'
  BY <1>1, CallsOnly DEF SelectOTP, IInv, TypeOK, limits, counts
<1>2. CASE Continue(w, Idle)
  BY <1>1, <1>2, IdleIsPlain
<1>3. ASSUME NEW i \in DOMAIN otp_codes, otp_codes[i].phone = calls[w].phone, LiveCode(i),
             Continue(w, [step |-> "consumeOTP", phone |-> calls[w].phone, row |-> i])
      PROVE  IInv'
  <2>. DEFINE d == [step |-> "consumeOTP", phone |-> calls[w].phone, row |-> i]
  <2>1. calls[w].phone \in Phones /\ i \in OtpIds
    BY CallFields DEF SelectOTP, IInv, TypeOK
  <2>2. codePhone[i] = calls[w].phone
    BY <1>3 DEF IInv, CodesTracked
  <2>3. uses[i][w] = 0
    BY <1>3, <2>1 DEF IInv, CodesTracked, LiveCode
  <2>4. CallOK(w, d)
    BY <2>1, <2>2, <2>3 DEF Call, CallOK
  <2>. QED
    BY <1>1, <1>3, <2>4
<1>. QED
  BY <1>2, <1>3 DEF SelectOTP, MatchingCodes

LEMMA RefreshStep ==
    ASSUME IInv, NEW w \in Workers, NEW t \in Tokens, Refresh(w, t)
    PROVE  IInv'
<1>. DEFINE c == [step |-> "selectRefresh", token |-> t]
<1>1. CallOK(w, c)
  BY DEF Call, CallOK
<1>. QED
  BY <1>1, CallsOnly DEF Refresh, IInv, TypeOK, limits, counts

LEMMA SelectRefreshStep == ASSUME IInv, NEW w \in Workers, SelectRefresh(w) PROVE IInv'
<1>. DEFINE t == calls[w].token
            c == [step |-> "consumeRefresh", token |-> t]
<1>1. ASSUME NEW d, CallOK(w, d), Continue(w, d) PROVE IInv'
  BY <1>1, CallsOnly DEF SelectRefresh, IInv, TypeOK, limits, counts
<1>2. CASE LiveToken(t)
  <2>1. t \in Tokens
    BY CallFields DEF SelectRefresh, IInv
  <2>2. login[t] # None /\ rotations[t][w] = 0
    BY <1>2, <2>1 DEF IInv, TokensTracked, LiveToken
  <2>3. CallOK(w, c)
    BY <2>1, <2>2 DEF Call, CallOK
  <2>. QED
    BY <1>1, <1>2, <2>3 DEF SelectRefresh
<1>3. CASE ~LiveToken(t)
  BY <1>1, <1>3, IdleIsPlain DEF SelectRefresh
<1>. QED
  BY <1>2, <1>3

-----------------------------------------------------------------------------
(* Steps that change a table.                                              *)

\* A sign-in stays backed while codes keep their phone and grants are kept.
LEMMA BackedStable ==
    ASSUME TypeOK,
           \A i \in OtpIds : codePhone[i] # None => codePhone'[i] = codePhone[i],
           \A i \in OtpIds, w \in Workers : uses[i][w] > 0 => uses'[i][w] > 0
    PROVE  \A l, p : p \in Phones /\ Backed(l, p) => Backed(l, p)'
BY NoneAssumption DEF Backed

\* CallsBacked, when all workers but w stay where they are.
LEMMA CallsBackedStep ==
    ASSUME IInv, NEW w \in Workers,
           \A v \in Workers : v # w => calls'[v] = calls[v],
           \A l, p : p \in Phones /\ Backed(l, p) => Backed(l, p)',
           \A u \in UserIds : userPhone[u] \in Phones => userPhone'[u] = userPhone[u],
           At(w, "upsertUser")' => Backed(calls[w].login, calls[w].phone)',
           At(w, "saveRefresh")' =>
              /\ userPhone'[calls'[w].user] \in Phones
              /\ Backed(calls[w].login, userPhone[calls[w].user])'
    PROVE  CallsBacked'
<1>1. ASSUME NEW v \in Workers, v # w, At(v, "upsertUser")'
      PROVE  Backed(calls[v].login, calls[v].phone)'
  <2>1. calls'[v] = calls[v] /\ At(v, "upsertUser")
    BY <1>1 DEF At
  <2>2. calls[v].phone \in Phones /\ Backed(calls[v].login, calls[v].phone)
    BY <2>1, CallFields DEF IInv, CallsBacked
  <2>. QED
    BY <2>1, <2>2 DEF Backed
<1>2. ASSUME NEW v \in Workers, v # w, At(v, "saveRefresh")'
      PROVE  /\ userPhone'[calls'[v].user] \in Phones
             /\ Backed(calls[v].login, userPhone[calls[v].user])'
  <2>. DEFINE u == calls[v].user
  <2>1. calls'[v] = calls[v] /\ At(v, "saveRefresh")
    BY <1>2 DEF At
  <2>2. u \in UserIds /\ userPhone[u] \in Phones /\ Backed(calls[v].login, userPhone[u])
    BY <2>1, CallFields DEF IInv, CallsBacked
  <2>3. userPhone'[u] = userPhone[u]
    BY <2>2
  <2>. QED
    BY <2>1, <2>2, <2>3 DEF Backed
<1>. QED
  BY <1>1, <1>2 DEF CallsBacked

\* The account of a stored token has a phone.
LEMMA SessionPhones ==
    ASSUME IInv, NEW t \in DOMAIN refresh_tokens
    PROVE  /\ refresh_tokens[t].user \in UserIds
           /\ userPhone[refresh_tokens[t].user] \in Phones
<1>1. PICK p \in DOMAIN users : users[p] = refresh_tokens[t].user
  BY DEF IInv, NoTokenOfDeletedUser, Range
<1>. QED
  BY <1>1 DEF IInv, TypeOK, AccountsTracked

\* SessionBacked, when every token stored was stored before.
LEMMA SessionBackedStep ==
    ASSUME IInv,
           \A t \in DOMAIN refresh_tokens' :
              /\ t \in DOMAIN refresh_tokens
              /\ refresh_tokens'[t].user = refresh_tokens[t].user
              /\ login'[t] = login[t],
           \A l, p : p \in Phones /\ Backed(l, p) => Backed(l, p)',
           \A u \in UserIds : userPhone[u] \in Phones => userPhone'[u] = userPhone[u]
    PROVE  SessionBacked'
<1>1. ASSUME NEW t \in DOMAIN refresh_tokens'
      PROVE  Backed(login[t], userPhone[refresh_tokens[t].user])'
  <2>. DEFINE u == refresh_tokens[t].user
  <2>1. t \in DOMAIN refresh_tokens /\ u \in UserIds /\ userPhone[u] \in Phones
    BY SessionPhones
  <2>2. Backed(login[t], userPhone[u])
    BY <2>1 DEF IInv, SessionBacked
  <2>3. Backed(login[t], userPhone[u])' /\ refresh_tokens'[t].user = u /\ login'[t] = login[t]
        /\ userPhone'[u] = userPhone[u]
    BY <2>1, <2>2
  <2>. QED
    BY <2>3 DEF Backed
<1>. QED
  BY <1>1 DEF SessionBacked

\* A code's id is new: nobody was granted it.
LEMMA SaveOTPStep == ASSUME IInv, NEW w \in Workers, SaveOTP(w) PROVE IInv'
<1>. DEFINE p == calls[w].phone
            c == [step |-> "sendSMS"]
<1>1. p \in Phones
  BY CallFields DEF SaveOTP, IInv
<1>2. PICK i \in OtpIds, d \in Codes :
         /\ codePhone[i] = None
         /\ otp_codes' = Put(otp_codes, i,
               [phone |-> p, code |-> d, created |-> clock,
                expires |-> clock + OtpTTL, consumed |-> FALSE])
         /\ codePhone' = [codePhone EXCEPT ![i] = p]
  BY DEF SaveOTP
<1>3. UNCHANGED <<clock, users, refresh_tokens, requests, attempts, sweeper,
                  userPhone, login, tries, uses, rotations>>
  BY DEF SaveOTP, limits, counts
<1>. DEFINE row == [phone |-> p, code |-> d, created |-> clock,
                    expires |-> clock + OtpTTL, consumed |-> FALSE]
<1>4. row \in OtpRow
  BY <1>1, <1>2, TimeAssumption DEF OtpRow, IInv, TypeOK
<1>5. otp_codes' = Put(otp_codes, i, row)
  BY <1>2
<1>6. row.phone = p /\ row.consumed = FALSE
  OBVIOUS
<1>. HIDE DEF row
<1>7. /\ DOMAIN otp_codes' = DOMAIN otp_codes \cup {i}
      /\ otp_codes'[i] = row
      /\ \A j \in DOMAIN otp_codes : j # i => otp_codes'[j] = otp_codes[j]
  BY <1>5 DEF Put
<1>8. /\ DOMAIN Put(otp_codes, i, row) \subseteq OtpIds
      /\ Put(otp_codes, i, row) \in [DOMAIN Put(otp_codes, i, row) -> OtpRow]
  BY <1>4, PutType DEF IInv, TypeOK
<1>9. /\ DOMAIN otp_codes' \subseteq OtpIds
      /\ otp_codes' \in [DOMAIN otp_codes' -> OtpRow]
  BY <1>5, <1>8, Zenon
<1>10. /\ calls' \in [Workers -> Call]
      /\ calls'[w] = c
      /\ \A v \in Workers : v # w => calls'[v] = calls[v]
  BY ContinueFacts DEF SaveOTP, IInv, Call
<1>11. /\ codePhone' \in [OtpIds -> Phones \cup {None}]
      /\ codePhone'[i] = p
      /\ \A j \in OtpIds : j # i => codePhone'[j] = codePhone[j]
  BY <1>1, <1>2 DEF IInv, TypeOK
<1>12. TypeOK'
  BY <1>3, <1>9, <1>10, <1>11 DEF IInv, TypeOK
<1>13. CodesTracked'
  <2>1. \A j \in DOMAIN otp_codes' : codePhone'[j] = otp_codes'[j].phone
    BY <1>6, <1>7, <1>9, <1>11 DEF IInv, CodesTracked
  <2>2. ASSUME NEW j \in OtpIds, NEW v \in Workers
        PROVE  /\ uses'[j][v] \in {0, 1}
               /\ uses'[j][v] = 1 =>
                     /\ codePhone'[j] # None
                     /\ j \in DOMAIN otp_codes' => otp_codes'[j].consumed
    BY <1>2, <1>3, <1>7, <1>11 DEF IInv, CodesTracked
  <2>3. ASSUME NEW v \in Workers, At(v, "consumeOTP")'
        PROVE  /\ codePhone'[calls'[v].row] = calls'[v].phone
               /\ uses'[calls'[v].row][v] = 0
    <3>1. v # w /\ calls'[v] = calls[v] /\ At(v, "consumeOTP")
      BY <1>10, <2>3 DEF At
    <3>2. calls[v].row \in OtpIds /\ calls[v].phone \in Phones
      BY <3>1, CallFields DEF IInv
    <3>3. codePhone[calls[v].row] = calls[v].phone /\ uses[calls[v].row][v] = 0
      BY <3>1 DEF IInv, CodesTracked
    <3>4. calls[v].row # i
      BY <1>2, <3>2, <3>3, NoneAssumption
    <3>. QED
      BY <1>3, <1>11, <3>1, <3>2, <3>3, <3>4
  <2>. QED
    BY <2>1, <2>2, <2>3 DEF CodesTracked, At
<1>14. TokensTracked'
  BY <1>3, <1>10 DEF IInv, TokensTracked, At
<1>15. AccountsTracked' /\ NoTokenOfDeletedUser'
  BY <1>3 DEF IInv, AccountsTracked, NoTokenOfDeletedUser, Range
<1>16. \A l, q : q \in Phones /\ Backed(l, q) => Backed(l, q)'
  BY <1>2, <1>3, <1>11, BackedStable DEF IInv
<1>17. CallsBacked'
  BY <1>3, <1>10, <1>16, CallsBackedStep DEF At
<1>18. SessionBacked'
  BY <1>3, <1>16, SessionBackedStep
<1>. QED
  BY <1>12, <1>13, <1>14, <1>15, <1>17, <1>18 DEF IInv

\* The worker granted a code was not granted it before, and the row is consumed
\* from then on.
LEMMA ConsumeOTPStep == ASSUME IInv, NEW w \in Workers, ConsumeOTP(w) PROVE IInv'
<1>. DEFINE i == calls[w].row
            p == calls[w].phone
            c == [step |-> "upsertUser", phone |-> p, login |-> i]
<1>1. /\ i \in OtpIds /\ p \in Phones
      /\ codePhone[i] = p /\ uses[i][w] = 0
  BY CallFields DEF ConsumeOTP, IInv, CodesTracked
<1>2. UNCHANGED <<clock, users, refresh_tokens, requests, attempts, sweeper,
                  codePhone, userPhone, login, tries, rotations>>
  BY DEF ConsumeOTP, limits, origins
<1>3. c \in Call
  BY <1>1 DEF Call, Logins
<1>4. /\ Continue(w, Idle) \/ (Continue(w, c) /\ uses'[i][w] = 1)
      /\ DOMAIN otp_codes' = DOMAIN otp_codes
      /\ otp_codes' \in [DOMAIN otp_codes' -> OtpRow]
      /\ \A j \in DOMAIN otp_codes :
            /\ otp_codes'[j].phone = otp_codes[j].phone
            /\ otp_codes[j].consumed => otp_codes'[j].consumed
      /\ uses' \in [OtpIds -> [Workers -> Nat]]
      /\ \A j \in OtpIds, v \in Workers : j # i \/ v # w => uses'[j][v] = uses[j][v]
      /\ uses'[i][w] \in {0, 1}
      /\ uses'[i][w] = 1 /\ i \in DOMAIN otp_codes => otp_codes'[i].consumed
  <2>. DEFINE T == DOMAIN otp_codes
  <2>1. otp_codes \in [T -> OtpRow] /\ uses \in [OtpIds -> [Workers -> Nat]]
    BY DEF IInv, TypeOK
  <2>2. CASE i \notin T
    BY <1>1, <2>1, <2>2 DEF ConsumeOTP
  <2>3. CASE i \in T
    <3>. DEFINE row == [otp_codes[i] EXCEPT !.consumed = TRUE]
    <3>1. /\ row \in OtpRow /\ row.phone = otp_codes[i].phone /\ row.consumed
          /\ otp_codes' = [otp_codes EXCEPT ![i] = row]
      BY <2>1, <2>3 DEF ConsumeOTP, OtpRow
    <3>2. /\ DOMAIN otp_codes' = T
          /\ otp_codes' \in [T -> OtpRow]
          /\ otp_codes'[i] = row
          /\ \A j \in T : j # i => otp_codes'[j] = otp_codes[j]
      <4>. HIDE DEF row
      <4>. QED
        BY <2>1, <2>3, <3>1
    <3>3. CASE Continue(w, Idle) /\ uses' = uses
      BY <1>1, <2>1, <2>3, <3>1, <3>2, <3>3
    <3>4. CASE Continue(w, c) /\ uses' = [uses EXCEPT ![i][w] = @ + 1]
      <4>1. /\ uses' \in [OtpIds -> [Workers -> Nat]]
            /\ uses'[i][w] = 1
            /\ \A j \in OtpIds, v \in Workers : j # i \/ v # w => uses'[j][v] = uses[j][v]
        BY <1>1, <2>1, <3>4
      <4>. QED
        BY <1>1, <2>1, <2>3, <3>1, <3>2, <3>4, <4>1
    <3>. QED
      BY <2>3, <3>3, <3>4 DEF ConsumeOTP
  <2>. QED
    BY <2>2, <2>3
<1>5. /\ calls' \in [Workers -> Call]
      /\ calls'[w] = Idle \/ (calls'[w] = c /\ uses'[i][w] = 1)
      /\ \A v \in Workers : v # w => calls'[v] = calls[v]
  BY <1>3, <1>4, ContinueFacts DEF IInv, Call
<1>6. TypeOK'
  BY <1>2, <1>4, <1>5 DEF IInv, TypeOK
<1>7. CodesTracked'
  <2>1. \A j \in DOMAIN otp_codes' : codePhone'[j] = otp_codes'[j].phone
    BY <1>2, <1>4 DEF IInv, CodesTracked
  <2>2. ASSUME NEW j \in OtpIds, NEW v \in Workers
        PROVE  /\ uses'[j][v] \in {0, 1}
               /\ uses'[j][v] = 1 =>
                     /\ codePhone'[j] # None
                     /\ j \in DOMAIN otp_codes' => otp_codes'[j].consumed
    <3>1. CASE j = i /\ v = w
      BY <1>1, <1>2, <1>4, <3>1, NoneAssumption
    <3>2. CASE ~(j = i /\ v = w)
      BY <1>2, <1>4, <3>2 DEF IInv, CodesTracked
    <3>. QED
      BY <3>1, <3>2
  <2>3. ASSUME NEW v \in Workers, At(v, "consumeOTP")'
        PROVE  /\ codePhone'[calls'[v].row] = calls'[v].phone
               /\ uses'[calls'[v].row][v] = 0
    <3>1. v # w /\ calls'[v] = calls[v] /\ At(v, "consumeOTP")
      BY <1>5, <2>3 DEF At, Idle
    <3>2. calls[v].row \in OtpIds
      BY <3>1, CallFields DEF IInv
    <3>. QED
      BY <1>2, <1>4, <3>1, <3>2 DEF IInv, CodesTracked
  <2>. QED
    BY <2>1, <2>2, <2>3 DEF CodesTracked, At
<1>8. TokensTracked'
  BY <1>2, <1>5 DEF IInv, TokensTracked, At, Idle
<1>9. AccountsTracked' /\ NoTokenOfDeletedUser'
  BY <1>2 DEF IInv, AccountsTracked, NoTokenOfDeletedUser, Range
<1>10. \A l, q : q \in Phones /\ Backed(l, q) => Backed(l, q)'
  <2>1. \A j \in OtpIds, v \in Workers : uses[j][v] > 0 => uses'[j][v] > 0
    BY <1>1, <1>4
  <2>. QED
    BY <1>2, <2>1, BackedStable DEF IInv
<1>11. CallsBacked'
  <2>1. ASSUME At(w, "upsertUser")' PROVE Backed(calls[w].login, calls[w].phone)'
    <3>1. calls'[w] = c /\ uses'[i][w] = 1
      BY <1>5, <2>1 DEF At, Idle
    <3>2. i # "dev"
      BY <1>1, NoneAssumption
    <3>. QED
      BY <1>1, <1>2, <3>1, <3>2 DEF Backed
  <2>2. ~At(w, "saveRefresh")'
    BY <1>5 DEF At, Idle
  <2>. QED
    BY <1>2, <1>5, <1>10, <2>1, <2>2, CallsBackedStep
<1>12. SessionBacked'
  BY <1>2, <1>10, SessionBackedStep
<1>. QED
  BY <1>6, <1>7, <1>8, <1>9, <1>11, <1>12 DEF IInv

\* An account keeps its phone; a new one takes an id never used.
LEMMA UpsertUserStep == ASSUME IInv, NEW w \in Workers, UpsertUser(w) PROVE IInv'
<1>. DEFINE p == calls[w].phone
            l == calls[w].login
<1>1. p \in Phones /\ l \in Logins /\ Backed(l, p)
  BY CallFields DEF UpsertUser, IInv, CallsBacked
<1>2. PICK u \in UserIds :
         /\ \/ /\ p \in DOMAIN users /\ users[p] = u
               /\ UNCHANGED <<users, userPhone>>
            \/ /\ p \notin DOMAIN users /\ userPhone[u] = None
               /\ users' = Put(users, p, u)
               /\ userPhone' = [userPhone EXCEPT ![u] = p]
         /\ \/ Continue(w, [step |-> "saveRefresh", user |-> u, login |-> l])
            \/ Continue(w, Idle)
  BY DEF UpsertUser
<1>. DEFINE c == [step |-> "saveRefresh", user |-> u, login |-> l]
<1>3. UNCHANGED <<clock, otp_codes, refresh_tokens, requests, attempts, sweeper,
                  codePhone, login, tries, uses, rotations>>
  BY DEF UpsertUser, limits, counts
<1>4. c \in Call
  BY <1>1 DEF Call
<1>5. /\ calls' \in [Workers -> Call]
      /\ calls'[w] = Idle \/ calls'[w] = c
      /\ \A v \in Workers : v # w => calls'[v] = calls[v]
  BY <1>2, <1>4, ContinueFacts DEF IInv, Call
<1>6. /\ DOMAIN users' \subseteq Phones
      /\ users' \in [DOMAIN users' -> UserIds]
      /\ \A q \in DOMAIN users : q \in DOMAIN users' /\ users'[q] = users[q]
      /\ \A q \in DOMAIN users' : q \in DOMAIN users \/ (q = p /\ users'[q] = u)
      /\ userPhone' \in [UserIds -> Phones \cup {None}]
      /\ userPhone'[u] = p
      /\ \A x \in UserIds : userPhone[x] # None => userPhone'[x] = userPhone[x]
  <2>1. CASE p \in DOMAIN users /\ users[p] = u /\ UNCHANGED <<users, userPhone>>
    BY <2>1 DEF IInv, TypeOK, AccountsTracked
  <2>2. CASE /\ p \notin DOMAIN users /\ userPhone[u] = None
             /\ users' = Put(users, p, u)
             /\ userPhone' = [userPhone EXCEPT ![u] = p]
    BY <1>1, <2>2 DEF IInv, TypeOK, Put
  <2>. QED
    BY <1>2, <2>1, <2>2
<1>7. TypeOK'
  BY <1>3, <1>5, <1>6 DEF IInv, TypeOK
<1>8. CodesTracked' /\ TokensTracked'
  BY <1>3, <1>5 DEF IInv, CodesTracked, TokensTracked, At, Idle
<1>9. AccountsTracked'
  <2>. SUFFICES ASSUME NEW q \in DOMAIN users' PROVE userPhone'[users'[q]] = q
    BY DEF AccountsTracked
  <2>1. CASE q \in DOMAIN users
    <3>1. users[q] \in UserIds /\ userPhone[users[q]] = q /\ q # None
      BY <2>1, NoneAssumption DEF IInv, TypeOK, AccountsTracked
    <3>. QED
      BY <1>6, <2>1, <3>1
  <2>2. CASE q = p /\ users'[q] = u
    BY <1>6, <2>2
  <2>. QED
    BY <1>6, <2>1, <2>2
<1>10. NoTokenOfDeletedUser'
  BY <1>3, <1>6 DEF IInv, NoTokenOfDeletedUser, Range
<1>11. \A k, q : q \in Phones /\ Backed(k, q) => Backed(k, q)'
  BY <1>3, BackedStable DEF IInv
<1>12. \A x \in UserIds : userPhone[x] \in Phones => userPhone'[x] = userPhone[x]
  BY <1>6, NoneAssumption
<1>13. CallsBacked'
  <2>1. ASSUME At(w, "saveRefresh")'
        PROVE  /\ userPhone'[calls'[w].user] \in Phones
               /\ Backed(calls[w].login, userPhone[calls[w].user])'
    <3>1. calls'[w] = c
      BY <1>5, <2>1 DEF At, Idle
    <3>. QED
      BY <1>1, <1>3, <1>6, <3>1 DEF Backed
  <2>2. ~At(w, "upsertUser")'
    BY <1>5 DEF At, Idle
  <2>. QED
    BY <1>5, <1>11, <1>12, <2>1, <2>2, CallsBackedStep
<1>14. SessionBacked'
  BY <1>3, <1>11, <1>12, SessionBackedStep
<1>. QED
  BY <1>7, <1>8, <1>9, <1>10, <1>13, <1>14 DEF IInv

\* Likewise for tokens; the new call inherits the sign-in of the old token.
LEMMA ConsumeRefreshStep == ASSUME IInv, NEW w \in Workers, ConsumeRefresh(w) PROVE IInv'
<1>. DEFINE t == calls[w].token
            T == DOMAIN refresh_tokens
            u == refresh_tokens[t].user
            c == [step |-> "saveRefresh", user |-> u, login |-> login[t]]
<1>1. t \in Tokens /\ login[t] # None /\ rotations[t][w] = 0
  BY CallFields DEF ConsumeRefresh, IInv, TokensTracked
<1>2. UNCHANGED <<clock, otp_codes, users, requests, attempts, sweeper,
                  codePhone, userPhone, login, tries, uses>>
  BY DEF ConsumeRefresh, limits, origins
<1>3. ASSUME t \in T
      PROVE  /\ c \in Call
             /\ userPhone[u] \in Phones /\ Backed(login[t], userPhone[u])
  <2>1. u \in UserIds /\ userPhone[u] \in Phones
    BY <1>3, SessionPhones
  <2>2. login[t] \in Logins
    BY <1>1 DEF IInv, TypeOK
  <2>3. Backed(login[t], userPhone[u])
    BY <1>3 DEF IInv, SessionBacked
  <2>. QED
    BY <2>1, <2>2, <2>3 DEF Call
<1>4. /\ Continue(w, Idle) \/ (Continue(w, c) /\ t \in T)
      /\ DOMAIN refresh_tokens' = T
      /\ refresh_tokens' \in [T -> RefreshRow]
      /\ \A s \in T :
            /\ refresh_tokens'[s].user = refresh_tokens[s].user
            /\ refresh_tokens[s].revoked => refresh_tokens'[s].revoked
      /\ rotations' \in [Tokens -> [Workers -> Nat]]
      /\ \A s \in Tokens, v \in Workers :
            s # t \/ v # w => rotations'[s][v] = rotations[s][v]
      /\ rotations'[t][w] \in {0, 1}
      /\ rotations'[t][w] = 1 /\ t \in T => refresh_tokens'[t].revoked
  <2>1. refresh_tokens \in [T -> RefreshRow] /\ rotations \in [Tokens -> [Workers -> Nat]]
    BY DEF IInv, TypeOK
  <2>2. CASE t \notin T
    BY <1>1, <2>1, <2>2 DEF ConsumeRefresh
  <2>3. CASE t \in T
    <3>. DEFINE row == [refresh_tokens[t] EXCEPT !.revoked = TRUE]
    <3>1. /\ row \in RefreshRow /\ row.user = refresh_tokens[t].user /\ row.revoked
          /\ refresh_tokens' = [refresh_tokens EXCEPT ![t] = row]
      BY <2>1, <2>3 DEF ConsumeRefresh, RefreshRow
    <3>2. /\ DOMAIN refresh_tokens' = T
          /\ refresh_tokens' \in [T -> RefreshRow]
          /\ refresh_tokens'[t] = row
          /\ \A s \in T : s # t => refresh_tokens'[s] = refresh_tokens[s]
      <4>. HIDE DEF row
      <4>. QED
        BY <2>1, <2>3, <3>1
    <3>3. CASE Continue(w, Idle) /\ rotations' = rotations
      BY <1>1, <2>1, <2>3, <3>1, <3>2, <3>3
    <3>4. CASE Continue(w, c) /\ rotations' = [rotations EXCEPT ![t][w] = @ + 1]
      <4>1. /\ rotations' \in [Tokens -> [Workers -> Nat]]
            /\ rotations'[t][w] = 1
            /\ \A s \in Tokens, v \in Workers :
                  s # t \/ v # w => rotations'[s][v] = rotations[s][v]
        BY <1>1, <2>1, <3>4
      <4>. QED
        BY <1>1, <2>1, <2>3, <3>1, <3>2, <3>4, <4>1
    <3>. QED
      BY <2>3, <3>3, <3>4 DEF ConsumeRefresh
  <2>. QED
    BY <2>2, <2>3
<1>5. /\ calls' \in [Workers -> Call]
      /\ calls'[w] = Idle \/ (calls'[w] = c /\ t \in T)
      /\ \A v \in Workers : v # w => calls'[v] = calls[v]
  BY <1>3, <1>4, ContinueFacts DEF IInv, Call
<1>6. TypeOK'
  BY <1>2, <1>4, <1>5 DEF IInv, TypeOK
<1>7. TokensTracked'
  <2>1. \A s \in DOMAIN refresh_tokens' : login'[s] # None
    BY <1>2, <1>4 DEF IInv, TokensTracked
  <2>2. ASSUME NEW s \in Tokens, NEW v \in Workers
        PROVE  /\ rotations'[s][v] \in {0, 1}
               /\ rotations'[s][v] = 1 =>
                     /\ login'[s] # None
                     /\ s \in DOMAIN refresh_tokens' => refresh_tokens'[s].revoked
    <3>1. CASE s = t /\ v = w
      BY <1>1, <1>2, <1>4, <3>1
    <3>2. CASE ~(s = t /\ v = w)
      BY <1>2, <1>4, <3>2 DEF IInv, TokensTracked
    <3>. QED
      BY <3>1, <3>2
  <2>3. ASSUME NEW v \in Workers, At(v, "consumeRefresh")'
        PROVE  /\ login'[calls'[v].token] # None
               /\ rotations'[calls'[v].token][v] = 0
    <3>1. v # w /\ calls'[v] = calls[v] /\ At(v, "consumeRefresh")
      BY <1>5, <2>3 DEF At, Idle
    <3>2. calls[v].token \in Tokens
      BY <3>1, CallFields DEF IInv
    <3>. QED
      BY <1>2, <1>4, <3>1, <3>2 DEF IInv, TokensTracked
  <2>. QED
    BY <2>1, <2>2, <2>3 DEF TokensTracked, At
<1>8. CodesTracked'
  BY <1>2, <1>5 DEF IInv, CodesTracked, At, Idle
<1>9. AccountsTracked' /\ NoTokenOfDeletedUser'
  BY <1>2, <1>4 DEF IInv, AccountsTracked, NoTokenOfDeletedUser, Range
<1>10. \A l, q : q \in Phones /\ Backed(l, q) => Backed(l, q)'
  BY <1>2, BackedStable DEF IInv
<1>11. CallsBacked'
  <2>1. ASSUME At(w, "saveRefresh")'
        PROVE  /\ userPhone'[calls'[w].user] \in Phones
               /\ Backed(calls[w].login, userPhone[calls[w].user])'
    <3>1. calls'[w] = c /\ t \in T
      BY <1>5, <2>1 DEF At, Idle
    <3>2. calls'[w].user = u /\ calls'[w].login = login[t] /\ userPhone[u] \in Phones
      BY <1>3, <3>1
    <3>3. userPhone'[u] = userPhone[u] /\ codePhone' = codePhone
      BY <1>2
    <3>4. \A i \in OtpIds, v \in Workers : uses'[i][v] = uses[i][v]
      BY <1>2
    <3>5. Backed(login[t], userPhone[u])
      BY <1>3, <3>1
    <3>. QED
      BY <3>2, <3>3, <3>4, <3>5 DEF Backed
  <2>2. ~At(w, "upsertUser")'
    BY <1>5 DEF At, Idle
  <2>. QED
    BY <1>2, <1>5, <1>10, <2>1, <2>2, CallsBackedStep
<1>12. SessionBacked'
  BY <1>2, <1>4, <1>10, SessionBackedStep
<1>. QED
  BY <1>6, <1>7, <1>8, <1>9, <1>11, <1>12 DEF IInv

\* A new token is backed because the call that stores it was, and its account
\* exists because the foreign key says so.
LEMMA SaveRefreshStep == ASSUME IInv, NEW w \in Workers, SaveRefresh(w) PROVE IInv'
<1>. DEFINE u == calls[w].user
            l == calls[w].login
            T == DOMAIN refresh_tokens
<1>1. /\ u \in UserIds /\ l \in Logins /\ u \in Range(users)
      /\ userPhone[u] \in Phones /\ Backed(l, userPhone[u])
  BY CallFields DEF SaveRefresh, IInv, CallsBacked, UserExists
<1>2. PICK t \in Tokens :
         /\ login[t] = None
         /\ refresh_tokens' = Put(refresh_tokens, t,
               [user |-> u, expires |-> clock + RefreshTTL, revoked |-> FALSE])
         /\ login' = [login EXCEPT ![t] = l]
  BY DEF SaveRefresh
<1>3. UNCHANGED <<clock, otp_codes, users, requests, attempts, sweeper, codePhone,
                  userPhone, tries, uses, rotations>>
  BY DEF SaveRefresh, limits, counts
<1>. DEFINE row == [user |-> u, expires |-> clock + RefreshTTL, revoked |-> FALSE]
<1>4. row \in RefreshRow /\ row.user = u
  BY <1>1, TimeAssumption DEF RefreshRow, IInv, TypeOK
<1>5. refresh_tokens' = Put(refresh_tokens, t, row)
  BY <1>2
<1>. HIDE DEF row
<1>6. /\ DOMAIN refresh_tokens' = T \cup {t}
      /\ refresh_tokens'[t] = row
      /\ \A s \in T : s # t => refresh_tokens'[s] = refresh_tokens[s]
  BY <1>5 DEF Put
<1>7. /\ DOMAIN Put(refresh_tokens, t, row) \subseteq Tokens
      /\ Put(refresh_tokens, t, row) \in [DOMAIN Put(refresh_tokens, t, row) -> RefreshRow]
  BY <1>4, PutType DEF IInv, TypeOK
<1>8. /\ DOMAIN refresh_tokens' \subseteq Tokens
      /\ refresh_tokens' \in [DOMAIN refresh_tokens' -> RefreshRow]
  BY <1>5, <1>7, Zenon
<1>9. /\ calls' \in [Workers -> Call]
      /\ calls'[w] = Idle
      /\ \A v \in Workers : v # w => calls'[v] = calls[v]
  BY ContinueFacts DEF SaveRefresh, IInv, Call
<1>10. /\ login' \in [Tokens -> Logins \cup {None}]
       /\ login'[t] = l /\ l # None
       /\ \A s \in Tokens : s # t => login'[s] = login[s]
  BY <1>1, <1>2, NoneAssumption DEF IInv, TypeOK, Logins
<1>11. TypeOK'
  BY <1>3, <1>8, <1>9, <1>10 DEF IInv, TypeOK
<1>12. CodesTracked'
  BY <1>3, <1>9 DEF IInv, CodesTracked, At, Idle
<1>13. TokensTracked'
  <2>1. \A s \in DOMAIN refresh_tokens' : login'[s] # None
    BY <1>6, <1>8, <1>10 DEF IInv, TokensTracked
  <2>2. ASSUME NEW s \in Tokens, NEW v \in Workers
        PROVE  /\ rotations'[s][v] \in {0, 1}
               /\ rotations'[s][v] = 1 =>
                     /\ login'[s] # None
                     /\ s \in DOMAIN refresh_tokens' => refresh_tokens'[s].revoked
    BY <1>2, <1>3, <1>6, <1>10 DEF IInv, TokensTracked
  <2>3. ASSUME NEW v \in Workers, At(v, "consumeRefresh")'
        PROVE  /\ login'[calls'[v].token] # None
               /\ rotations'[calls'[v].token][v] = 0
    <3>1. v # w /\ calls'[v] = calls[v] /\ At(v, "consumeRefresh")
      BY <1>9, <2>3 DEF At, Idle
    <3>2. calls[v].token \in Tokens
      BY <3>1, CallFields DEF IInv
    <3>. QED
      BY <1>3, <1>10, <3>1, <3>2 DEF IInv, TokensTracked
  <2>. QED
    BY <2>1, <2>2, <2>3 DEF TokensTracked, At
<1>14. AccountsTracked' /\ NoTokenOfDeletedUser'
  <2>1. ASSUME NEW s \in DOMAIN refresh_tokens' PROVE refresh_tokens'[s].user \in Range(users)
    BY <1>1, <1>4, <1>6 DEF IInv, NoTokenOfDeletedUser
  <2>. QED
    BY <1>3, <2>1 DEF IInv, AccountsTracked, NoTokenOfDeletedUser, Range
<1>15. \A k, q : q \in Phones /\ Backed(k, q) => Backed(k, q)'
  BY <1>3, BackedStable DEF IInv
<1>16. CallsBacked'
  BY <1>3, <1>9, <1>15, CallsBackedStep DEF At, Idle
<1>17. SessionBacked'
  <2>1. ASSUME NEW s \in DOMAIN refresh_tokens'
        PROVE  Backed(login[s], userPhone[refresh_tokens[s].user])'
    <3>1. CASE s = t
      BY <1>1, <1>3, <1>4, <1>6, <1>10, <3>1 DEF Backed
    <3>2. CASE s # t
      <4>1. s \in T /\ s \in Tokens
        BY <1>6, <1>8, <3>2
      <4>2. Backed(login[s], userPhone[refresh_tokens[s].user])
        BY <4>1 DEF IInv, SessionBacked
      <4>. QED
        BY <1>3, <1>6, <1>10, <3>2, <4>1, <4>2 DEF Backed
    <3>. QED
      BY <3>1, <3>2
  <2>. QED
    BY <2>1 DEF SessionBacked
<1>. QED
  BY <1>11, <1>12, <1>13, <1>14, <1>16, <1>17 DEF IInv

-----------------------------------------------------------------------------
(* The cleanup, account deletion, restarts and time.                       *)

\* Deleting rows, whichever they are, keeps the invariant as long as every
\* token left still has its account.
LEMMA DropStep ==
    ASSUME IInv, NEW S, NEW R, NEW P,
           otp_codes' = Drop(otp_codes, S),
           refresh_tokens' = Drop(refresh_tokens, R),
           users' = Drop(users, P),
           NoTokenOfDeletedUser',
           sweeper' \in {"idle", "otp", "refresh"},
           UNCHANGED <<clock, limits, calls, origins, counts>>
    PROVE  IInv'
<1>. USE DEF limits, origins, counts
<1>1. /\ DOMAIN otp_codes' \subseteq DOMAIN otp_codes
      /\ otp_codes' \in [DOMAIN otp_codes' -> OtpRow]
      /\ \A i \in DOMAIN otp_codes' : otp_codes'[i] = otp_codes[i]
  BY DEF Drop, IInv, TypeOK
<1>2. /\ DOMAIN refresh_tokens' \subseteq DOMAIN refresh_tokens
      /\ refresh_tokens' \in [DOMAIN refresh_tokens' -> RefreshRow]
      /\ \A t \in DOMAIN refresh_tokens' : refresh_tokens'[t] = refresh_tokens[t]
  BY DEF Drop, IInv, TypeOK
<1>3. /\ DOMAIN users' \subseteq DOMAIN users
      /\ users' \in [DOMAIN users' -> UserIds]
      /\ \A p \in DOMAIN users' : users'[p] = users[p]
  BY DEF Drop, IInv, TypeOK
<1>4. TypeOK'
  BY <1>1, <1>2, <1>3 DEF IInv, TypeOK
<1>5. CodesTracked'
  BY <1>1 DEF IInv, CodesTracked, At
<1>6. TokensTracked'
  BY <1>2 DEF IInv, TokensTracked, At
<1>7. AccountsTracked'
  BY <1>3 DEF IInv, AccountsTracked
<1>8. CallsBacked'
  BY DEF IInv, CallsBacked, Backed, At
<1>9. SessionBacked'
  BY <1>2 DEF IInv, SessionBacked, Backed
<1>. QED
  BY <1>4, <1>5, <1>6, <1>7, <1>8, <1>9 DEF IInv

LEMMA DropNothing ==
    ASSUME IInv
    PROVE  /\ otp_codes = Drop(otp_codes, {})
           /\ refresh_tokens = Drop(refresh_tokens, {})
           /\ users = Drop(users, {})
BY DEF IInv, TypeOK, Drop

LEMMA SweepOTPStep == ASSUME IInv, SweepOTP PROVE IInv'
<1>1. NoTokenOfDeletedUser'
  BY DEF SweepOTP, IInv, NoTokenOfDeletedUser, Range
<1>. QED
  BY <1>1, DropNothing, DropStep DEF SweepOTP

LEMMA SweepRefreshStep == ASSUME IInv, SweepRefresh PROVE IInv'
<1>1. NoTokenOfDeletedUser'
  BY DEF SweepRefresh, IInv, NoTokenOfDeletedUser, Range, Drop
<1>. QED
  BY <1>1, DropNothing, DropStep DEF SweepRefresh

LEMMA SweepTickStep == ASSUME IInv, SweepTick PROVE IInv'
<1>1. NoTokenOfDeletedUser'
  BY DEF SweepTick, tables, IInv, NoTokenOfDeletedUser, Range
<1>. QED
  BY <1>1, DropNothing, DropStep DEF SweepTick, tables

LEMMA SweepFailsStep == ASSUME IInv, SweepFails PROVE IInv'
<1>1. NoTokenOfDeletedUser'
  BY DEF SweepFails, tables, IInv, NoTokenOfDeletedUser, Range
<1>. QED
  BY <1>1, DropNothing, DropStep DEF SweepFails, tables

\* The cascade takes every token of the account.
LEMMA DeleteAccountStep ==
    ASSUME IInv, NEW p \in Phones, DeleteAccount(p)
    PROVE  IInv'
<1>1. ASSUME NEW t \in DOMAIN refresh_tokens'
      PROVE  refresh_tokens'[t].user \in Range(users')
  <2>1. /\ t \in DOMAIN refresh_tokens
        /\ refresh_tokens'[t] = refresh_tokens[t]
        /\ refresh_tokens[t].user # users[p]
    BY <1>1 DEF DeleteAccount, Drop
  <2>2. PICK q \in DOMAIN users : users[q] = refresh_tokens[t].user
    BY <2>1 DEF IInv, NoTokenOfDeletedUser, Range
  <2>3. q \in DOMAIN users' /\ users'[q] = users[q]
    BY <2>1, <2>2 DEF DeleteAccount, Drop
  <2>. QED
    BY <2>1, <2>2, <2>3 DEF Range
<1>2. NoTokenOfDeletedUser'
  BY <1>1 DEF NoTokenOfDeletedUser
<1>3. sweeper' \in {"idle", "otp", "refresh"}
  BY DEF DeleteAccount, IInv, TypeOK
<1>. QED
  BY <1>2, <1>3, DropNothing, DropStep DEF DeleteAccount

\* A restart ends every call and forgets the limiters.
LEMMA RestartStep == ASSUME IInv, Restart PROVE IInv'
<1>. USE DEF tables, origins
<1>1. /\ calls' \in [Workers -> Call]
      /\ \A w \in Workers : calls'[w] = Idle
      /\ requests' \in [Phones -> [start : Nat, used : 0..RequestLimit]]
      /\ attempts' \in [Phones -> [start : Nat, used : 0..VerifyLimit]]
      /\ tries' \in [OtpIds -> Nat]
  BY LimitAssumption DEF Restart, NoCalls, Call, RequestLimiter!NoWindow, VerifyLimiter!NoWindow
<1>2. TypeOK'
  BY <1>1 DEF Restart, IInv, TypeOK
<1>3. CodesTracked' /\ TokensTracked' /\ CallsBacked'
  BY <1>1 DEF Restart, IInv, CodesTracked, TokensTracked, CallsBacked, At, Idle
<1>4. AccountsTracked' /\ SessionBacked' /\ NoTokenOfDeletedUser'
  BY DEF Restart, IInv, AccountsTracked, SessionBacked, Backed, NoTokenOfDeletedUser, Range
<1>. QED
  BY <1>2, <1>3, <1>4 DEF IInv

\* Only the clock, and otherwise nothing, changes.
LEMMA ClockStep ==
    ASSUME IInv, clock' \in Nat, UNCHANGED <<tables, limits, calls, sweeper, origins, counts>>
    PROVE  IInv'
BY DEF IInv, TypeOK, CodesTracked, TokensTracked, AccountsTracked, CallsBacked, SessionBacked,
       NoTokenOfDeletedUser, Backed, At, Range, tables, limits, origins, counts

LEMMA InitIInv == ASSUME Init PROVE IInv
<1>1. TypeOK
  BY LimitAssumption DEF Init, TypeOK, EmptyTable, NoCalls, NoUses, Call,
     RequestLimiter!NoWindow, VerifyLimiter!NoWindow
<1>2. CodesTracked /\ TokensTracked /\ CallsBacked
  BY DEF Init, CodesTracked, TokensTracked, CallsBacked, At, Idle, NoCalls, NoUses, EmptyTable
<1>3. AccountsTracked /\ SessionBacked /\ NoTokenOfDeletedUser
  BY DEF Init, AccountsTracked, SessionBacked, NoTokenOfDeletedUser, EmptyTable
<1>. QED
  BY <1>1, <1>2, <1>3 DEF IInv

LEMMA StepIInv == ASSUME IInv, [Next]_vars PROVE IInv'
<1>1. ASSUME NEW w \in Workers, NEW p \in Phones, RequestOTP(w, p) PROVE IInv'
  BY <1>1, RequestOTPStep
<1>2. ASSUME NEW w \in Workers, NEW p \in Phones, NEW c \in Codes, VerifyOTP(w, p, c)
      PROVE  IInv'
  BY <1>2, VerifyOTPStep
<1>3. ASSUME NEW w \in Workers, NEW t \in Tokens, Refresh(w, t) PROVE IInv'
  BY <1>3, RefreshStep
<1>4. ASSUME NEW w \in Workers, Statement(w) PROVE IInv'
  BY <1>4, SaveOTPStep, SendSMSStep, SelectOTPStep, ConsumeOTPStep, UpsertUserStep,
     SelectRefreshStep, ConsumeRefreshStep, SaveRefreshStep, FailCallStep DEF Statement
<1>5. CASE SweepTick
  BY <1>5, SweepTickStep
<1>6. CASE SweepOTP
  BY <1>6, SweepOTPStep
<1>7. CASE SweepRefresh
  BY <1>7, SweepRefreshStep
<1>8. CASE SweepFails
  BY <1>8, SweepFailsStep
<1>9. ASSUME NEW p \in Phones, DeleteAccount(p) PROVE IInv'
  BY <1>9, DeleteAccountStep
<1>10. CASE Restart
  BY <1>10, RestartStep
<1>11. CASE Tick
  <2>1. clock' \in Nat
    BY <1>11 DEF Tick, IInv, TypeOK
  <2>. QED
    BY <1>11, <2>1, ClockStep DEF Tick
<1>12. CASE UNCHANGED vars
  <2>1. clock' \in Nat
    BY <1>12 DEF vars, IInv, TypeOK
  <2>. QED
    BY <1>12, <2>1, ClockStep DEF vars
<1>. QED
  BY <1>1, <1>2, <1>3, <1>4, <1>5, <1>6, <1>7, <1>8, <1>9, <1>10, <1>11, <1>12 DEF Next

-----------------------------------------------------------------------------

\* IInv is an invariant: every step of every handler, of the cleanup, of a
\* deletion and of a restart of auth.go preserves it.
THEOREM Safety == Spec => []IInv
<1>1. Init => IInv
  BY InitIInv
<1>2. IInv /\ [Next]_vars => IInv'
  BY StepIInv
<1>. QED
  BY <1>1, <1>2, PTL DEF Spec

\* Rows, calls and limiter windows keep their types; the limiters never admit
\* more than their limit.
THEOREM TypeCorrect == Spec => []TypeOK
<1>1. IInv => TypeOK
  BY DEF IInv
<1>. QED
  BY <1>1, Safety, PTL

\* The UPDATE ... WHERE id = (SELECT ...) of ConsumeOTP and ConsumeRefresh never
\* grants one code, or one token, to the same worker a second time.
THEOREM GrantedOncePerWorker == Spec => []OncePerWorker
<1>1. IInv => OncePerWorker
  <2>. SUFFICES ASSUME IInv PROVE OncePerWorker
    OBVIOUS
  <2>1. \A i \in OtpIds, w \in Workers : uses[i][w] \in {0, 1}
    BY DEF IInv, CodesTracked
  <2>2. \A t \in Tokens, w \in Workers : rotations[t][w] \in {0, 1}
    BY DEF IInv, TokensTracked
  <2>. QED
    BY <2>1, <2>2 DEF OncePerWorker
<1>. QED
  BY <1>1, Safety, PTL

\* Every refresh token stored leads back to a code that was sent to the phone of
\* its account and granted, or to the dev code where that is allowed.
THEOREM SessionsBacked == Spec => []SessionBacked
<1>1. IInv => SessionBacked
  BY DEF IInv
<1>. QED
  BY <1>1, Safety, PTL

\* No interleaving of a deletion with VerifyOTP or Refresh leaves a refresh token
\* behind.
THEOREM DeletionEndsSessions == Spec => []NoTokenOfDeletedUser
<1>1. IInv => NoTokenOfDeletedUser
  BY DEF IInv
<1>. QED
  BY <1>1, Safety, PTL

\* Where requests are served one at a time a code is granted at most once
\* (auth_test.go:120): double use takes two statements running at once.
THEOREM SequentialOtpSingleUse ==
    ASSUME \A v, w \in Workers : v = w
    PROVE  Spec => []OtpSingleUse
<1>1. IInv => OtpSingleUse
  BY DEF IInv, CodesTracked, OtpSingleUse, SingleUse
<1>. QED
  BY <1>1, Safety, PTL

\* Likewise a token is rotated at most once (auth.go:114).
THEOREM SequentialRefreshSingleUse ==
    ASSUME \A v, w \in Workers : v = w
    PROVE  Spec => []RefreshSingleUse
<1>1. IInv => RefreshSingleUse
  BY DEF IInv, TokensTracked, RefreshSingleUse, SingleUse
<1>. QED
  BY <1>1, Safety, PTL

-----------------------------------------------------------------------------
(***************************************************************************)
(* Guesses.  A window of attempts that opens while a code lives outlasts   *)
(* it, so a code meets at most two windows: one that was running when it   *)
(* was made, whose first attempt was before it, and the next.              *)
(***************************************************************************)

\* A code that was never stored was never tried.
Untried == \A i \in OtpIds : codePhone[i] = None => tries[i] = 0

Lifetimes ==
    \A i \in DOMAIN otp_codes :
       /\ otp_codes[i].created <= clock
       /\ otp_codes[i].expires = otp_codes[i].created + OtpTTL

\* The tries of a live code against the window of its phone.
TriesInWindow(row, w, n) ==
    /\ w.used = 0 => n = 0
    /\ (w.used # 0 /\ w.start < row.created) => n <= w.used - 1
    /\ (w.used # 0 /\ ~(w.start < row.created)) => n <= VerifyLimit - 1 + w.used

LiveTries ==
    \A i \in DOMAIN otp_codes :
       LiveCode(i) => TriesInWindow(otp_codes[i], attempts[otp_codes[i].phone], tries[i])

\* What bounds the guesses: LiveTries ties them to the windows of the limiter.
TriesIInv == Untried /\ Lifetimes /\ (OtpTTL <= VerifyWindow => LiveTries) /\ TriesBounded

\* A step that only ages, uses up or drops codes.
LEMMA TriesQuietStep ==
    ASSUME TypeOK, TypeOK', TriesIInv, UNCHANGED <<attempts, tries, codePhone>>, clock <= clock',
           \A i \in DOMAIN otp_codes' :
              /\ i \in DOMAIN otp_codes
              /\ otp_codes'[i].phone = otp_codes[i].phone
              /\ otp_codes'[i].created = otp_codes[i].created
              /\ otp_codes'[i].expires = otp_codes[i].expires
              /\ otp_codes[i].consumed => otp_codes'[i].consumed
    PROVE  TriesIInv'
<1>1. Untried' /\ TriesBounded'
  BY DEF TriesIInv, Untried, TriesBounded
<1>2. ASSUME NEW i \in DOMAIN otp_codes'
      PROVE  /\ otp_codes[i].created \in Nat /\ otp_codes[i].expires \in Nat
             /\ otp_codes'[i].created \in Nat /\ otp_codes'[i].expires \in Nat
             /\ i \in DOMAIN otp_codes
             /\ otp_codes[i].created <= clock
             /\ otp_codes[i].expires = otp_codes[i].created + OtpTTL
             /\ clock \in Nat /\ clock' \in Nat
  BY <1>2 DEF TypeOK, OtpRow, TriesIInv, Lifetimes
<1>3. Lifetimes'
  BY <1>2 DEF Lifetimes
<1>4. ASSUME OtpTTL <= VerifyWindow, NEW i \in DOMAIN otp_codes', LiveCode(i)'
      PROVE  TriesInWindow(otp_codes'[i], attempts'[otp_codes'[i].phone], tries'[i])
  <2>1. LiveCode(i)
    BY <1>2, <1>4 DEF LiveCode
  <2>2. TriesInWindow(otp_codes[i], attempts[otp_codes[i].phone], tries[i])
    BY <1>2, <1>4, <2>1 DEF TriesIInv, LiveTries
  <2>. QED
    BY <1>4, <2>2 DEF TriesInWindow
<1>. QED
  BY <1>1, <1>3, <1>4 DEF TriesIInv, LiveTries

\* A new code has not been tried.
LEMMA SaveOTPTries ==
    ASSUME IInv, TriesIInv, NEW w \in Workers, SaveOTP(w)
    PROVE  TriesIInv'
<1>. DEFINE p == calls[w].phone
<1>1. p \in Phones
  BY CallFields DEF SaveOTP, IInv
<1>2. PICK i \in OtpIds, c \in Codes :
         /\ codePhone[i] = None
         /\ otp_codes' = Put(otp_codes, i,
               [phone |-> p, code |-> c, created |-> clock,
                expires |-> clock + OtpTTL, consumed |-> FALSE])
         /\ codePhone' = [codePhone EXCEPT ![i] = p]
  BY DEF SaveOTP
<1>3. /\ tries' = tries /\ attempts' = attempts /\ clock' = clock
  BY DEF SaveOTP, limits, counts
<1>4. tries[i] = 0
  BY <1>2 DEF TriesIInv, Untried
<1>. DEFINE row == [phone |-> p, code |-> c, created |-> clock,
                    expires |-> clock + OtpTTL, consumed |-> FALSE]
<1>5. otp_codes' = Put(otp_codes, i, row)
  BY <1>2
<1>6. clock \in Nat /\ codePhone \in [OtpIds -> Phones \cup {None}]
  BY DEF IInv, TypeOK
<1>7. Untried'
  BY <1>1, <1>2, <1>3, <1>6, NoneAssumption DEF TriesIInv, Untried
<1>8. row.created = clock /\ row.expires = clock + OtpTTL /\ row.phone = p
  OBVIOUS
<1>. HIDE DEF row
<1>9. /\ DOMAIN otp_codes' = DOMAIN otp_codes \cup {i}
      /\ otp_codes'[i] = row
      /\ \A j \in DOMAIN otp_codes : j # i => otp_codes'[j] = otp_codes[j]
  BY <1>5 DEF Put
<1>10. Lifetimes'
  BY <1>3, <1>9, <1>6, <1>8 DEF TriesIInv, Lifetimes
<1>11. TriesBounded'
  BY <1>3 DEF TriesIInv, TriesBounded
<1>12. ASSUME OtpTTL <= VerifyWindow, NEW j \in DOMAIN otp_codes', LiveCode(j)'
       PROVE  TriesInWindow(otp_codes'[j], attempts'[otp_codes'[j].phone], tries'[j])
  <2>1. CASE j = i
    <3>1. attempts[p].used \in 0..VerifyLimit
      BY <1>1 DEF IInv, TypeOK
    <3>2. tries'[j] = 0 /\ attempts' = attempts /\ otp_codes'[j].phone = p
      BY <1>3, <1>4, <1>9, <1>8, <2>1
    <3>. QED
      BY <3>1, <3>2, LimitAssumption DEF TriesInWindow
  <2>2. CASE j # i
    <3>1. j \in DOMAIN otp_codes /\ otp_codes'[j] = otp_codes[j]
      BY <1>9, <1>12, <2>2
    <3>2. LiveCode(j)
      BY <1>3, <1>12, <3>1 DEF LiveCode
    <3>. QED
      BY <1>3, <1>12, <3>1, <3>2 DEF TriesIInv, LiveTries
  <2>. QED
    BY <2>1, <2>2
<1>. QED
  BY <1>7, <1>10, <1>11, <1>12 DEF TriesIInv, LiveTries

\* How an attempt that is let through moves the window of its phone.
LEMMA AllowVerifyWindow ==
    ASSUME TypeOK, NEW p \in Phones, AllowVerify(p)
    PROVE  /\ \A q \in Phones : q # p => attempts'[q] = attempts[q]
           /\ \/ /\ attempts[p].used = 0 \/ clock - attempts[p].start > VerifyWindow
                 /\ attempts'[p] = [start |-> clock, used |-> 1]
              \/ /\ attempts[p].used \in 1..(VerifyLimit - 1)
                 /\ attempts'[p].start = attempts[p].start
                 /\ attempts'[p].used = attempts[p].used + 1
<1>. DEFINE W == [start : Nat, used : 0..VerifyLimit]
<1>1. attempts \in [Phones -> W] /\ clock \in Nat
  BY DEF TypeOK
<1>2. CASE VerifyLimiter!Open(p)
  <2>1. PICK s \in {t \in 0..clock : clock - t <= 0} :
            attempts' = [attempts EXCEPT ![p] = [start |-> s, used |-> 1]]
    BY <1>2 DEF VerifyLimiter!Open
  <2>2. s = clock
    BY <1>1
  <2>. QED
    BY <1>1, <1>2, <2>1, <2>2 DEF VerifyLimiter!Open, VerifyLimiter!MayOpen
<1>3. CASE VerifyLimiter!Admit(p)
  BY <1>1, <1>3 DEF VerifyLimiter!Admit
<1>. QED
  BY <1>2, <1>3 DEF AllowVerify

\* An attempt counts for each live code of its phone.
LEMMA VerifyOTPTries ==
    ASSUME IInv, IInv', TriesIInv, NEW w \in Workers, NEW p \in Phones, NEW c \in Codes,
           VerifyOTP(w, p, c)
    PROVE  TriesIInv'
<1>1. /\ otp_codes' = otp_codes /\ codePhone' = codePhone /\ clock' = clock
      /\ tries' = [i \in OtpIds |->
                     IF LiveCode(i) /\ otp_codes[i].phone = p THEN tries[i] + 1 ELSE tries[i]]
  BY AllowVerifyType DEF VerifyOTP, tables, origins, IInv
<1>2. /\ \A q \in Phones : q # p => attempts'[q] = attempts[q]
      /\ \/ /\ attempts[p].used = 0 \/ clock - attempts[p].start > VerifyWindow
            /\ attempts'[p] = [start |-> clock, used |-> 1]
         \/ /\ attempts[p].used \in 1..(VerifyLimit - 1)
            /\ attempts'[p].start = attempts[p].start
            /\ attempts'[p].used = attempts[p].used + 1
  BY AllowVerifyWindow DEF VerifyOTP, IInv
<1>3. \A i \in OtpIds : LiveCode(i)' <=> LiveCode(i)
  BY <1>1 DEF LiveCode
<1>4. ASSUME NEW i \in DOMAIN otp_codes
      PROVE  /\ i \in OtpIds /\ codePhone[i] = otp_codes[i].phone
             /\ otp_codes[i].phone \in Phones
             /\ otp_codes[i].created \in Nat /\ otp_codes[i].expires \in Nat
             /\ otp_codes[i].created <= clock
             /\ otp_codes[i].expires = otp_codes[i].created + OtpTTL
  BY <1>4 DEF IInv, TypeOK, OtpRow, CodesTracked, TriesIInv, Lifetimes
<1>5. Untried'
  <2>. SUFFICES ASSUME NEW i \in OtpIds, codePhone[i] = None PROVE tries'[i] = 0
    BY <1>1 DEF Untried
  <2>1. ~LiveCode(i)
    BY <1>4, NoneAssumption DEF LiveCode
  <2>. QED
    BY <1>1, <2>1 DEF TriesIInv, Untried
<1>6. Lifetimes'
  BY <1>1 DEF TriesIInv, Lifetimes
<1>7. ASSUME OtpTTL <= VerifyWindow, NEW i \in DOMAIN otp_codes, LiveCode(i)
      PROVE  /\ TriesInWindow(otp_codes[i], attempts'[otp_codes[i].phone], tries'[i])
             /\ tries'[i] < 2 * VerifyLimit
  <2>. DEFINE q == otp_codes[i].phone
              a == attempts[q]
              b == attempts'[q]
              made == otp_codes[i].created
              n == tries[i]
  <2>1. /\ a.start \in Nat /\ a.used \in 0..VerifyLimit
        /\ b.start \in Nat /\ b.used \in 0..VerifyLimit
        /\ n \in Nat /\ made \in Nat /\ clock \in Nat
    BY <1>4 DEF IInv, TypeOK
  <2>2. clock < made + OtpTTL /\ made <= clock
    BY <1>4, <1>7, <2>1, TimeAssumption DEF LiveCode
  <2>3. TriesInWindow(otp_codes[i], a, n)
    BY <1>7 DEF TriesIInv, LiveTries
  <2>4. IF q = p THEN tries'[i] = n + 1 ELSE tries'[i] = n
    BY <1>1, <1>4, <1>7
  <2>5. TriesInWindow(otp_codes[i], b, tries'[i])
    <3>1. CASE q # p
      BY <1>2, <1>4, <2>3, <2>4, <3>1
    <3>2. CASE /\ q = p
               /\ a.used = 0 \/ clock - a.start > VerifyWindow
               /\ b = [start |-> clock, used |-> 1]
      <4>1. b.start = clock /\ b.used = 1 /\ tries'[i] = n + 1
        BY <2>4, <3>2
      <4>2. a.used = 0 \/ a.start < made
        BY <1>7, <2>1, <2>2, <3>2, TimeAssumption, LimitAssumption
      <4>3. n + 1 <= VerifyLimit
        BY <2>1, <2>3, <4>2, LimitAssumption DEF TriesInWindow
      <4>. HIDE DEF a, b, n
      <4>. QED
        BY <2>1, <2>2, <4>1, <4>3, LimitAssumption DEF TriesInWindow
    <3>3. CASE /\ q = p
               /\ a.used \in 1..(VerifyLimit - 1)
               /\ b.start = a.start /\ b.used = a.used + 1
      <4>1. tries'[i] = n + 1
        BY <2>4, <3>3
      <4>. HIDE DEF a, b, n
      <4>. QED
        BY <2>1, <2>3, <3>3, <4>1, LimitAssumption DEF TriesInWindow
    <3>. QED
      BY <1>2, <3>1, <3>2, <3>3
  <2>6. tries'[i] \in Nat
    BY <1>4 DEF IInv, TypeOK
  <2>. HIDE DEF a, b, n
  <2>7. tries'[i] < 2 * VerifyLimit
    BY <2>1, <2>5, <2>6, LimitAssumption DEF TriesInWindow
  <2>. QED
    BY <2>5, <2>7 DEF b
<1>8. TriesBounded'
  <2>. SUFFICES ASSUME OtpTTL <= VerifyWindow, NEW i \in OtpIds
                PROVE  tries'[i] < 2 * VerifyLimit
    BY DEF TriesBounded
  <2>1. CASE LiveCode(i)
    BY <1>7, <2>1 DEF LiveCode
  <2>2. CASE ~LiveCode(i)
    BY <1>1, <2>2 DEF TriesIInv, TriesBounded
  <2>. QED
    BY <2>1, <2>2
<1>9. OtpTTL <= VerifyWindow => LiveTries'
  BY <1>1, <1>3, <1>4, <1>7 DEF LiveTries
<1>. QED
  BY <1>5, <1>6, <1>8, <1>9 DEF TriesIInv

\* A restart forgets the windows, and begins to count again.
LEMMA RestartTries ==
    ASSUME IInv, TriesIInv, Restart
    PROVE  TriesIInv'
<1>1. /\ otp_codes' = otp_codes /\ clock' = clock
      /\ tries' = [i \in OtpIds |-> 0]
      /\ attempts' = [p \in Phones |-> [start |-> 0, used |-> 0]]
  BY DEF Restart, tables, VerifyLimiter!NoWindow
<1>2. Untried' /\ Lifetimes'
  BY <1>1 DEF TriesIInv, Untried, Lifetimes
<1>3. TriesBounded'
  BY <1>1, LimitAssumption DEF TriesBounded
<1>4. ASSUME NEW i \in DOMAIN otp_codes
      PROVE  TriesInWindow(otp_codes[i], attempts'[otp_codes[i].phone], tries'[i])
  <2>1. i \in OtpIds /\ otp_codes[i].phone \in Phones
    BY <1>4 DEF IInv, TypeOK, OtpRow
  <2>2. tries'[i] = 0 /\ attempts'[otp_codes[i].phone].used = 0
    BY <1>1, <2>1
  <2>. QED
    BY <2>2 DEF TriesInWindow
<1>5. LiveTries'
  BY <1>1, <1>4 DEF LiveTries
<1>. QED
  BY <1>2, <1>3, <1>5 DEF TriesIInv

LEMMA InitTries == ASSUME Init PROVE TriesIInv
<1>1. DOMAIN otp_codes = {} /\ tries = [i \in OtpIds |-> 0]
  BY DEF Init, EmptyTable
<1>. QED
  BY <1>1, LimitAssumption DEF TriesIInv, Untried, Lifetimes, LiveTries, TriesBounded

LEMMA TriesStep ==
    ASSUME IInv, IInv', TriesIInv, [Next]_vars
    PROVE  TriesIInv'
<1>. USE DEF tables, limits, origins, counts
<1>1. TypeOK /\ TypeOK' /\ clock \in Nat
  BY DEF IInv, TypeOK
<1>2. ASSUME UNCHANGED <<otp_codes, attempts, tries, codePhone>>, clock <= clock'
      PROVE  TriesIInv'
  BY <1>1, <1>2, TriesQuietStep
<1>3. ASSUME UNCHANGED <<otp_codes, attempts, tries, codePhone, clock>>
      PROVE  TriesIInv'
  BY <1>1, <1>2, <1>3
<1>4. ASSUME NEW w \in Workers, NEW p \in Phones, RequestOTP(w, p) PROVE TriesIInv'
  BY <1>3, <1>4, AllowRequestType DEF RequestOTP, IInv
<1>5. ASSUME NEW w \in Workers, ConsumeOTP(w) PROVE TriesIInv'
  <2>1. UNCHANGED <<attempts, tries, codePhone, clock>>
    BY <1>5 DEF ConsumeOTP
  <2>2. CASE otp_codes' = otp_codes
    BY <1>3, <2>1, <2>2
  <2>3. CASE otp_codes' = [otp_codes EXCEPT ![calls[w].row].consumed = TRUE]
    <3>1. \A i \in DOMAIN otp_codes' :
             /\ i \in DOMAIN otp_codes
             /\ otp_codes'[i].phone = otp_codes[i].phone
             /\ otp_codes'[i].created = otp_codes[i].created
             /\ otp_codes'[i].expires = otp_codes[i].expires
             /\ otp_codes[i].consumed => otp_codes'[i].consumed
      BY <1>1, <2>3 DEF TypeOK, OtpRow
    <3>. QED
      BY <1>1, <2>1, <3>1, TriesQuietStep
  <2>. QED
    BY <1>5, <2>2, <2>3 DEF ConsumeOTP
<1>6. ASSUME NEW w \in Workers, Statement(w) PROVE TriesIInv'
  BY <1>3, <1>5, <1>6, SaveOTPTries
     DEF Statement, SendSMS, SelectOTP, UpsertUser, SelectRefresh, ConsumeRefresh,
         SaveRefresh, FailCall
<1>7. CASE SweepOTP
  <2>1. \A i \in DOMAIN otp_codes' : i \in DOMAIN otp_codes /\ otp_codes'[i] = otp_codes[i]
    BY <1>7 DEF SweepOTP, Drop
  <2>. QED
    BY <1>1, <1>7, <2>1, TriesQuietStep DEF SweepOTP
<1>8. CASE \/ SweepTick \/ SweepRefresh \/ SweepFails \/ UNCHANGED vars
           \/ \E p \in Phones : DeleteAccount(p)
           \/ \E w \in Workers, t \in Tokens : Refresh(w, t)
  BY <1>3, <1>8 DEF SweepTick, SweepRefresh, SweepFails, DeleteAccount, Refresh, vars
<1>9. CASE Tick
  BY <1>1, <1>2, <1>9 DEF Tick
<1>. QED
  BY <1>4, <1>6, <1>7, <1>8, <1>9, VerifyOTPTries, RestartTries DEF Next

\* auth.go:309: for every limit, window and lifetime, and however attempts, new
\* codes and restarts interleave.
THEOREM GuessesBounded == Spec => []TriesBounded
<1>1. Init => TriesIInv
  BY InitTries
<1>2. IInv /\ IInv' /\ TriesIInv /\ [Next]_vars => TriesIInv'
  BY TriesStep
<1>3. TriesIInv => TriesBounded
  BY DEF TriesIInv
<1>. QED
  BY <1>1, <1>2, <1>3, Safety, PTL DEF Spec

-----------------------------------------------------------------------------
(***************************************************************************)
(* What dies.  Of the steps that change a row or drop it, only the         *)
(* consuming ones touch a live row, and the deletion of its account; the   *)
(* cleanup drops what is dead already, and ids are not used again.         *)
(***************************************************************************)

\* The row is as it was.
TokenStays(t) ==
    t \in DOMAIN refresh_tokens' /\ refresh_tokens'[t] = refresh_tokens[t]
CodeStays(i) ==
    i \in DOMAIN otp_codes' /\ otp_codes'[i] = otp_codes[i]

\* A call presents the row and goes on.
TokenUsed(t) ==
    \E w \in Workers : At(w, "consumeRefresh") /\ calls[w].token = t /\ calls'[w] # calls[w]
CodeUsed(i) ==
    \E w \in Workers : At(w, "consumeOTP") /\ calls[w].row = i /\ calls'[w] # calls[w]

\* Only tokens that are presented are changed, and only dead ones, or those of a
\* deleted account, are dropped.
LEMMA TokenFate ==
    ASSUME IInv, [Next]_vars, NEW t \in DOMAIN refresh_tokens
    PROVE  \/ TokenStays(t)
           \/ DeadToken(t)
           \/ TokenUsed(t)
           \/ refresh_tokens[t].user \notin Range(users')
<1>. USE DEF tables, TokenStays
<1>1. t \in Tokens /\ login[t] # None
  BY DEF IInv, TypeOK, TokensTracked
<1>2. ASSUME NEW w \in Workers, ConsumeRefresh(w)
      PROVE  TokenStays(t) \/ TokenUsed(t)
  <2>1. calls'[w] # calls[w]
    <3>. DEFINE given == calls[w].token
                c == [step |-> "saveRefresh", user |-> refresh_tokens[given].user, login |-> login[given]]
    <3>1. Continue(w, Idle) \/ Continue(w, c)
      BY <1>2 DEF ConsumeRefresh
    <3>2. Idle.step # "consumeRefresh" /\ c.step # "consumeRefresh"
      BY DEF Idle
    <3>3. calls[w].step = "consumeRefresh" /\ calls \in [Workers -> Call]
      BY <1>2 DEF ConsumeRefresh, At, IInv, TypeOK
    <3>. HIDE DEF c
    <3>4. calls'[w] = Idle \/ calls'[w] = c
      BY <3>1, <3>3 DEF Continue
    <3>. QED
      BY <3>2, <3>3, <3>4
  <2>2. CASE calls[w].token = t
    BY <1>2, <2>1, <2>2 DEF ConsumeRefresh, TokenUsed
  <2>3. CASE calls[w].token # t
    BY <1>2, <2>3 DEF ConsumeRefresh, IInv, TypeOK
  <2>. QED
    BY <2>2, <2>3
<1>3. ASSUME NEW w \in Workers, SaveRefresh(w)
      PROVE  TokenStays(t)
  BY <1>1, <1>3 DEF SaveRefresh, Put
<1>4. ASSUME NEW w \in Workers, Statement(w)
      PROVE  TokenStays(t) \/ TokenUsed(t)
  BY <1>2, <1>3, <1>4
     DEF Statement, SaveOTP, SendSMS, SelectOTP, ConsumeOTP, UpsertUser, SelectRefresh, FailCall
<1>5. CASE SweepRefresh
  BY <1>5 DEF SweepRefresh, Drop
<1>6. ASSUME NEW p \in Phones, DeleteAccount(p)
      PROVE  TokenStays(t) \/ refresh_tokens[t].user \notin Range(users')
  <2>1. CASE refresh_tokens[t].user # users[p]
    BY <1>6, <2>1 DEF DeleteAccount, Drop
  <2>2. CASE refresh_tokens[t].user = users[p]
    <3>1. p \in DOMAIN users /\ userPhone[users[p]] = p
      BY <1>6 DEF DeleteAccount, IInv, AccountsTracked
    <3>2. ASSUME NEW q \in DOMAIN users', users'[q] = users[p] PROVE FALSE
      <4>1. q \in DOMAIN users /\ q # p /\ users[q] = users[p]
        BY <1>6, <3>2 DEF DeleteAccount, Drop
      <4>2. userPhone[users[q]] = q
        BY <4>1 DEF IInv, AccountsTracked
      <4>. QED
        BY <3>1, <4>1, <4>2
    <3>. QED
      BY <2>2, <3>2 DEF Range
  <2>. QED
    BY <2>1, <2>2
<1>7. CASE \/ SweepTick \/ SweepOTP \/ SweepFails \/ Restart \/ Tick \/ UNCHANGED vars
           \/ \E w \in Workers, u \in Tokens : Refresh(w, u)
           \/ \E w \in Workers, p \in Phones : RequestOTP(w, p)
           \/ \E w \in Workers, p \in Phones, c \in Codes : VerifyOTP(w, p, c)
  BY <1>7 DEF SweepTick, SweepOTP, SweepFails, Restart, Tick, vars, Refresh, RequestOTP,
     VerifyOTP
<1>. QED
  BY <1>4, <1>5, <1>6, <1>7 DEF Next

\* Likewise for codes, which the deletion of an account leaves alone.
LEMMA CodeFate ==
    ASSUME IInv, [Next]_vars, NEW i \in DOMAIN otp_codes
    PROVE  \/ CodeStays(i)
           \/ StaleCode(i)
           \/ CodeUsed(i)
<1>. USE DEF tables, CodeStays
<1>1. i \in OtpIds /\ codePhone[i] # None
  BY NoneAssumption DEF IInv, TypeOK, OtpRow, CodesTracked
<1>2. ASSUME NEW w \in Workers, ConsumeOTP(w)
      PROVE  CodeStays(i) \/ CodeUsed(i)
  <2>1. calls'[w] # calls[w]
    <3>. DEFINE c == [step |-> "upsertUser", phone |-> calls[w].phone, login |-> calls[w].row]
    <3>1. Continue(w, Idle) \/ Continue(w, c)
      BY <1>2 DEF ConsumeOTP
    <3>2. Idle.step # "consumeOTP" /\ c.step # "consumeOTP"
      BY DEF Idle
    <3>3. calls[w].step = "consumeOTP" /\ calls \in [Workers -> Call]
      BY <1>2 DEF ConsumeOTP, At, IInv, TypeOK
    <3>. HIDE DEF c
    <3>4. calls'[w] = Idle \/ calls'[w] = c
      BY <3>1, <3>3 DEF Continue
    <3>. QED
      BY <3>2, <3>3, <3>4
  <2>2. CASE calls[w].row = i
    BY <1>2, <2>1, <2>2 DEF ConsumeOTP, CodeUsed
  <2>3. CASE calls[w].row # i
    BY <1>2, <2>3 DEF ConsumeOTP, IInv, TypeOK
  <2>. QED
    BY <2>2, <2>3
<1>3. ASSUME NEW w \in Workers, SaveOTP(w)
      PROVE  CodeStays(i)
  BY <1>1, <1>3 DEF SaveOTP, Put
<1>4. ASSUME NEW w \in Workers, Statement(w)
      PROVE  CodeStays(i) \/ CodeUsed(i)
  BY <1>2, <1>3, <1>4
     DEF Statement, SendSMS, SelectOTP, UpsertUser, SelectRefresh, ConsumeRefresh, SaveRefresh,
         FailCall
<1>5. CASE SweepOTP
  BY <1>5 DEF SweepOTP, Drop
<1>6. CASE \/ SweepTick \/ SweepRefresh \/ SweepFails \/ Restart \/ Tick \/ UNCHANGED vars
           \/ \E w \in Workers, u \in Tokens : Refresh(w, u)
           \/ \E w \in Workers, p \in Phones : RequestOTP(w, p)
           \/ \E w \in Workers, p \in Phones, c \in Codes : VerifyOTP(w, p, c)
           \/ \E p \in Phones : DeleteAccount(p)
  BY <1>6 DEF SweepTick, SweepRefresh, SweepFails, Restart, Tick, vars, Refresh, RequestOTP,
     VerifyOTP, DeleteAccount
<1>. QED
  BY <1>4, <1>5, <1>6 DEF Next

\* auth.go:137: for any number of workers, codes and tokens, the cleanup, deletions
\* and restarts take no live code and no live session from a client.
THEOREM LiveUntilUsed == Spec => DiesOnlyByUse
<1>. DEFINE A ==
       /\ \A t \in DOMAIN refresh_tokens :
             LiveToken(t) /\ ~LiveToken(t)' =>
                \/ clock' # clock
                \/ \E w \in Workers : At(w, "consumeRefresh") /\ calls[w].token = t
                                        /\ calls'[w] # calls[w]
                \/ refresh_tokens[t].user \notin Range(users')
       /\ \A i \in DOMAIN otp_codes :
             LiveCode(i) /\ ~LiveCode(i)' =>
                \/ clock' # clock
                \/ \E w \in Workers : At(w, "consumeOTP") /\ calls[w].row = i
                                        /\ calls'[w] # calls[w]
<1>1. ASSUME IInv, [Next]_vars PROVE A
  <2>1. clock \in Nat
    BY <1>1 DEF IInv, TypeOK
  <2>2. ASSUME NEW t \in DOMAIN refresh_tokens, LiveToken(t), ~LiveToken(t)', clock' = clock
        PROVE  TokenUsed(t) \/ refresh_tokens[t].user \notin Range(users')
    <3>1. ~TokenStays(t)
      BY <2>2 DEF LiveToken, TokenStays
    <3>2. ~DeadToken(t)
      <4>1. refresh_tokens[t].expires \in Nat
        BY <1>1 DEF IInv, TypeOK, RefreshRow
      <4>. QED
        BY <2>1, <2>2, <4>1 DEF LiveToken, DeadToken
    <3>. QED
      BY <1>1, <3>1, <3>2, TokenFate
  <2>3. ASSUME NEW i \in DOMAIN otp_codes, LiveCode(i), ~LiveCode(i)', clock' = clock
        PROVE  CodeUsed(i)
    <3>1. ~CodeStays(i)
      BY <2>3 DEF LiveCode, CodeStays
    <3>2. ~StaleCode(i)
      <4>1. otp_codes[i].expires \in Nat
        BY <1>1 DEF IInv, TypeOK, OtpRow
      <4>. QED
        BY <2>1, <2>3, <4>1, TimeAssumption DEF LiveCode, StaleCode
    <3>. QED
      BY <1>1, <3>1, <3>2, CodeFate
  <2>. QED
    BY <2>2, <2>3 DEF TokenUsed, CodeUsed
<1>2. IInv /\ [Next]_vars => [A]_vars
  BY <1>1
<1>. HIDE DEF A
<1>3. Spec => [][A]_vars
  BY <1>2, Safety, PTL DEF Spec
<1>. QED
  BY <1>3 DEF DiesOnlyByUse, A

-----------------------------------------------------------------------------
(***************************************************************************)
(* One session per sign-in, where requests are served one at a time.       *)
(***************************************************************************)

\* A token that is in the table and not revoked.
Unrevoked(t) == t \in DOMAIN refresh_tokens /\ ~refresh_tokens[t].revoked

\* Tokens of one code that still work are one.
OneUnrevoked ==
    \A s, t \in Tokens :
       (Unrevoked(s) /\ Unrevoked(t) /\ login[s] = login[t] /\ login[s] \in OtpIds) => s = t

\* Whoever is about to store a token of a code is the only one to have one.
StoresAlone ==
    \A w \in Workers :
       At(w, "upsertUser") \/ At(w, "saveRefresh") =>
          \A t \in Tokens : (Unrevoked(t) /\ login[t] \in OtpIds) => login[t] # calls[w].login

\* A token that is about to be revoked still works, if it is there.
RevokesUnrevoked ==
    \A w \in Workers :
       At(w, "consumeRefresh") /\ calls[w].token \in DOMAIN refresh_tokens =>
          Unrevoked(calls[w].token)

\* What leaves a sign-in one token when one call at a time is served.
OneIInv == OneUnrevoked /\ StoresAlone /\ RevokesUnrevoked

\* A step after which no token works that did not, and no call is where it is
\* about to store or revoke one that was not.
LEMMA OneQuietStep ==
    ASSUME OneIInv, \A t \in Tokens : Unrevoked(t)' => Unrevoked(t), UNCHANGED login,
           \A t \in Tokens : Unrevoked(t) => \/ Unrevoked(t)'
                                             \/ t \notin DOMAIN refresh_tokens',
           \A w \in Workers :
              \/ calls'[w] = calls[w]
              \/ calls'[w].step \notin {"upsertUser", "saveRefresh", "consumeRefresh"}
              \/ /\ At(w, "upsertUser") /\ calls'[w].step = "saveRefresh"
                 /\ calls'[w].login = calls[w].login,
           IInv, DOMAIN refresh_tokens' \subseteq DOMAIN refresh_tokens
    PROVE  OneIInv'
<1>1. OneUnrevoked'
  BY DEF OneIInv, OneUnrevoked
<1>2. StoresAlone'
  BY DEF OneIInv, StoresAlone, At
<1>3. RevokesUnrevoked'
  <2>. SUFFICES ASSUME NEW w \in Workers, At(w, "consumeRefresh")',
                       calls'[w].token \in DOMAIN refresh_tokens'
                PROVE  Unrevoked(calls[w].token)'
    BY DEF RevokesUnrevoked
  <2>1. calls'[w] = calls[w]
    BY DEF At
  <2>2. At(w, "consumeRefresh") /\ calls[w].token \in DOMAIN refresh_tokens
    BY <2>1 DEF At
  <2>3. Unrevoked(calls[w].token) /\ calls[w].token \in Tokens
    BY <2>2, CallFields DEF OneIInv, RevokesUnrevoked, IInv
  <2>4. calls'[w].token \in Tokens /\ Unrevoked(calls'[w].token)
    BY <2>1, <2>3
  <2>. QED
    BY <2>4 DEF Unrevoked
<1>. QED
  BY <1>1, <1>2, <1>3 DEF OneIInv

\* Nothing of a code is there before the code is granted.
LEMMA ConsumeOTPOne ==
    ASSUME \A v, w \in Workers : v = w,
           IInv, IInv', OneIInv, NEW w \in Workers, ConsumeOTP(w)
    PROVE  OneIInv'
<1>. DEFINE i == calls[w].row
            c == [step |-> "upsertUser", phone |-> calls[w].phone, login |-> i]
<1>1. /\ refresh_tokens' = refresh_tokens /\ login' = login
      /\ Continue(w, Idle) \/ Continue(w, c)
      /\ calls \in [Workers -> Call]
      /\ i \in OtpIds
  BY CallFields DEF ConsumeOTP, origins, IInv, TypeOK
<1>2. Idle.step = "idle" /\ c.step = "upsertUser" /\ c.login = i
  BY DEF Idle
<1>. HIDE DEF c
<1>3. calls'[w] = Idle \/ calls'[w] = c
  BY <1>1 DEF Continue
<1>4. OneUnrevoked'
  BY <1>1 DEF OneIInv, OneUnrevoked, Unrevoked
<1>5. ASSUME NEW t \in Tokens, Unrevoked(t), login[t] = i
      PROVE  FALSE
  <2>1. t \in DOMAIN refresh_tokens
    BY <1>5 DEF Unrevoked
  <2>2. Backed(login[t], userPhone[refresh_tokens[t].user])
    BY <2>1 DEF IInv, SessionBacked
  <2>3. PICK v \in Workers : uses[i][v] > 0
    BY <1>1, <1>5, <2>2, NoneAssumption DEF Backed
  <2>4. v = w /\ uses[i][w] = 0
    BY DEF ConsumeOTP, IInv, CodesTracked
  <2>. QED
    BY <2>3, <2>4
<1>6. StoresAlone'
  <2>. SUFFICES ASSUME NEW v \in Workers, At(v, "upsertUser")' \/ At(v, "saveRefresh")',
                       NEW t \in Tokens, Unrevoked(t), login[t] \in OtpIds
                PROVE  login[t] # calls'[v].login
    BY <1>1 DEF StoresAlone, Unrevoked
  <2>1. v = w
    OBVIOUS
  <2>2. calls'[w] = c
    BY <1>2, <1>3, <2>1 DEF At
  <2>. QED
    BY <1>2, <1>5, <2>1, <2>2
<1>7. RevokesUnrevoked'
  BY <1>2, <1>3 DEF RevokesUnrevoked, At
<1>. QED
  BY <1>4, <1>6, <1>7 DEF OneIInv

\* The token that is presented gives way to the one about to be stored.
LEMMA ConsumeRefreshOne ==
    ASSUME \A v, w \in Workers : v = w,
           IInv, IInv', OneIInv, NEW w \in Workers, ConsumeRefresh(w)
    PROVE  OneIInv'
<1>0. PICK t \in Tokens : t = calls[w].token
  BY CallFields DEF ConsumeRefresh, IInv
<1>. DEFINE c == [step |-> "saveRefresh", user |-> refresh_tokens[t].user, login |-> login[t]]
<1>1. /\ login' = login
      /\ calls \in [Workers -> Call]
      /\ At(w, "consumeRefresh")
      /\ DOMAIN refresh_tokens \subseteq Tokens
      /\ refresh_tokens \in [DOMAIN refresh_tokens -> RefreshRow]
  BY DEF ConsumeRefresh, origins, IInv, TypeOK
<1>2. \/ refresh_tokens' = refresh_tokens /\ Continue(w, Idle)
      \/ /\ t \in DOMAIN refresh_tokens
         /\ refresh_tokens' = [refresh_tokens EXCEPT ![t].revoked = TRUE]
         /\ Continue(w, Idle) \/ Continue(w, c)
  BY <1>0 DEF ConsumeRefresh
<1>3. Idle.step = "idle" /\ c.step = "saveRefresh" /\ c.login = login[t]
  BY DEF Idle
<1>. HIDE DEF c
<1>4. \A s \in Tokens : Unrevoked(s)' => Unrevoked(s)
  BY <1>1, <1>2 DEF Unrevoked, RefreshRow
<1>5. OneUnrevoked'
  BY <1>1, <1>4 DEF OneIInv, OneUnrevoked
<1>6. calls'[w] = Idle \/ (calls'[w] = c /\ Unrevoked(t) /\ ~Unrevoked(t)')
  <2>1. calls'[w] = Idle \/ (calls'[w] = c /\ t \in DOMAIN refresh_tokens
                               /\ refresh_tokens' = [refresh_tokens EXCEPT ![t].revoked = TRUE])
    BY <1>1, <1>2 DEF Continue
  <2>2. t \in DOMAIN refresh_tokens => Unrevoked(t)
    BY <1>0, <1>1 DEF OneIInv, RevokesUnrevoked
  <2>3. ASSUME t \in DOMAIN refresh_tokens,
               refresh_tokens' = [refresh_tokens EXCEPT ![t].revoked = TRUE]
        PROVE  ~Unrevoked(t)'
    <3>1. refresh_tokens[t] \in RefreshRow
      BY <1>1, <2>3
    <3>2. refresh_tokens'[t].revoked = TRUE
      BY <1>1, <2>3, <3>1 DEF RefreshRow
    <3>. QED
      BY <3>2 DEF Unrevoked
  <2>. QED
    BY <2>1, <2>2, <2>3
<1>7. StoresAlone'
  <2>. SUFFICES ASSUME NEW v \in Workers, At(v, "upsertUser")' \/ At(v, "saveRefresh")',
                       NEW s \in Tokens, Unrevoked(s)', login[s] \in OtpIds,
                       login[s] = calls'[v].login
                PROVE  FALSE
    BY <1>1 DEF StoresAlone
  <2>1. v = w
    OBVIOUS
  <2>2. calls'[w] = c /\ Unrevoked(t) /\ ~Unrevoked(t)'
    BY <1>3, <1>6, <2>1 DEF At
  <2>3. s = t
    BY <1>1, <1>3, <1>4, <2>1, <2>2 DEF OneIInv, OneUnrevoked
  <2>. QED
    BY <2>2, <2>3
<1>8. RevokesUnrevoked'
  BY <1>3, <1>6 DEF RevokesUnrevoked, At
<1>. QED
  BY <1>5, <1>7, <1>8 DEF OneIInv

LEMMA SaveRefreshOne ==
    ASSUME \A v, w \in Workers : v = w,
           IInv, IInv', OneIInv, NEW w \in Workers, SaveRefresh(w)
    PROVE  OneIInv'
<1>. DEFINE l == calls[w].login
<1>1. /\ calls' = [calls EXCEPT ![w] = Idle] /\ calls \in [Workers -> Call]
      /\ At(w, "saveRefresh") /\ login \in [Tokens -> Logins \cup {None}]
      /\ DOMAIN refresh_tokens \subseteq Tokens
  BY DEF SaveRefresh, Continue, IInv, TypeOK
<1>2. PICK t \in Tokens :
         /\ login[t] = None
         /\ refresh_tokens' = Put(refresh_tokens, t,
               [user |-> calls[w].user, expires |-> clock + RefreshTTL, revoked |-> FALSE])
         /\ login' = [login EXCEPT ![t] = l]
  BY DEF SaveRefresh
<1>3. \A s \in Tokens : s # t => (Unrevoked(s)' <=> Unrevoked(s)) /\ login'[s] = login[s]
  BY <1>1, <1>2 DEF Unrevoked, Put
<1>4. login'[t] = l
  BY <1>1, <1>2
<1>5. \A s \in Tokens : Unrevoked(s) /\ login[s] \in OtpIds => login[s] # l
  BY <1>1 DEF OneIInv, StoresAlone
<1>6. OneUnrevoked'
  BY <1>3, <1>4, <1>5 DEF OneIInv, OneUnrevoked
<1>7. \A v \in Workers : calls'[v].step = "idle"
  BY <1>1 DEF Idle
<1>8. StoresAlone' /\ RevokesUnrevoked'
  BY <1>7 DEF StoresAlone, RevokesUnrevoked, At
<1>. QED
  BY <1>6, <1>8 DEF OneIInv

LEMMA OneStep ==
    ASSUME \A v, w \in Workers : v = w,
           IInv, IInv', OneIInv, [Next]_vars
    PROVE  OneIInv'
<1>. USE DEF tables, origins
<1>1. calls \in [Workers -> Call] /\ DOMAIN refresh_tokens \subseteq Tokens
  BY DEF IInv, TypeOK
<1>2. ASSUME UNCHANGED <<refresh_tokens, login>>,
             NEW w \in Workers, NEW c, Continue(w, c),
             \/ c.step \notin {"upsertUser", "saveRefresh", "consumeRefresh"}
             \/ At(w, "upsertUser") /\ c.step = "saveRefresh" /\ c.login = calls[w].login
      PROVE  OneIInv'
  BY <1>1, <1>2, OneQuietStep DEF Continue, Unrevoked
<1>3. ASSUME UNCHANGED <<calls, login>>,
             \A t \in DOMAIN refresh_tokens' :
                t \in DOMAIN refresh_tokens /\ refresh_tokens'[t] = refresh_tokens[t]
      PROVE  OneIInv'
  BY <1>3, OneQuietStep DEF Unrevoked
<1>4. ASSUME NEW w \in Workers, NEW p \in Phones, RequestOTP(w, p) PROVE OneIInv'
  <2>. DEFINE c == [step |-> "saveOTP", phone |-> p]
  <2>1. c.step = "saveOTP" /\ Continue(w, c)
    BY <1>4 DEF RequestOTP
  <2>. HIDE DEF c
  <2>. QED
    BY <1>2, <1>4, <2>1 DEF RequestOTP
<1>5. ASSUME NEW w \in Workers, NEW p \in Phones, NEW c \in Codes, VerifyOTP(w, p, c)
      PROVE  OneIInv'
  <2>1. UNCHANGED <<refresh_tokens, login>>
    BY <1>5 DEF VerifyOTP
  <2>2. CASE DevCodeMatches(p, c)
    <3>. DEFINE d == [step |-> "upsertUser", phone |-> p, login |-> "dev"]
    <3>1. d.step = "upsertUser" /\ d.login = "dev" /\ Continue(w, d)
      BY <1>5, <2>2 DEF VerifyOTP
    <3>. HIDE DEF d
    <3>2. \A v \in Workers : calls'[v] = d
      BY <1>1, <3>1 DEF Continue
    <3>3. OneUnrevoked'
      BY <2>1 DEF OneIInv, OneUnrevoked, Unrevoked
    <3>4. StoresAlone' /\ RevokesUnrevoked'
      BY <2>1, <3>1, <3>2, NoneAssumption DEF StoresAlone, RevokesUnrevoked, At
    <3>. QED
      BY <3>3, <3>4 DEF OneIInv
  <2>3. CASE ~DevCodeMatches(p, c)
    <3>. DEFINE d == [step |-> "selectOTP", phone |-> p, code |-> c]
    <3>1. d.step = "selectOTP" /\ Continue(w, d)
      BY <1>5, <2>3 DEF VerifyOTP
    <3>. HIDE DEF d
    <3>. QED
      BY <1>2, <2>1, <3>1
  <2>. QED
    BY <2>2, <2>3
<1>6. ASSUME NEW w \in Workers, SelectOTP(w) PROVE OneIInv'
  <2>1. ASSUME NEW i, Continue(w, [step |-> "consumeOTP", phone |-> calls[w].phone, row |-> i])
        PROVE  OneIInv'
    <3>. DEFINE d == [step |-> "consumeOTP", phone |-> calls[w].phone, row |-> i]
    <3>1. d.step = "consumeOTP" /\ Continue(w, d)
      BY <2>1
    <3>. HIDE DEF d
    <3>. QED
      BY <1>2, <1>6, <3>1 DEF SelectOTP
  <2>2. CASE Continue(w, Idle)
    BY <1>2, <1>6, <2>2 DEF SelectOTP, Idle
  <2>. QED
    BY <1>6, <2>1, <2>2 DEF SelectOTP
<1>7. ASSUME NEW w \in Workers, SaveOTP(w) PROVE OneIInv'
  <2>1. Continue(w, [step |-> "sendSMS"]) /\ UNCHANGED <<refresh_tokens, login>>
    BY <1>7 DEF SaveOTP
  <2>. QED
    BY <1>2, <2>1
<1>8. ASSUME NEW w \in Workers, UpsertUser(w) PROVE OneIInv'
  <2>1. At(w, "upsertUser") /\ UNCHANGED <<refresh_tokens, login>>
    BY <1>8 DEF UpsertUser
  <2>2. ASSUME NEW u, Continue(w, [step |-> "saveRefresh", user |-> u, login |-> calls[w].login])
        PROVE  OneIInv'
    <3>. DEFINE d == [step |-> "saveRefresh", user |-> u, login |-> calls[w].login]
    <3>1. d.step = "saveRefresh" /\ d.login = calls[w].login /\ Continue(w, d)
      BY <2>2
    <3>. HIDE DEF d
    <3>. QED
      BY <1>2, <2>1, <3>1
  <2>3. CASE Continue(w, Idle)
    BY <1>2, <2>1, <2>3 DEF Idle
  <2>. QED
    BY <1>8, <2>2, <2>3 DEF UpsertUser
<1>9. ASSUME NEW w \in Workers, NEW t \in Tokens, Refresh(w, t) PROVE OneIInv'
  <2>. DEFINE c == [step |-> "selectRefresh", token |-> t]
  <2>1. c.step = "selectRefresh" /\ Continue(w, c)
    BY <1>9 DEF Refresh
  <2>. HIDE DEF c
  <2>. QED
    BY <1>2, <1>9, <2>1 DEF Refresh
<1>10. ASSUME NEW w \in Workers, SelectRefresh(w) PROVE OneIInv'
  <2>. DEFINE t == calls[w].token
              c == [step |-> "consumeRefresh", token |-> t]
  <2>1. UNCHANGED <<refresh_tokens, login>>
    BY <1>10 DEF SelectRefresh
  <2>2. CASE LiveToken(t)
    <3>1. c.step = "consumeRefresh" /\ c.token = t /\ Continue(w, c)
      BY <1>10, <2>2 DEF SelectRefresh
    <3>2. Unrevoked(t)
      BY <2>2 DEF LiveToken, Unrevoked
    <3>. HIDE DEF c, t
    <3>3. \A v \in Workers : calls'[v] = c
      BY <1>1, <3>1 DEF Continue
    <3>4. OneUnrevoked' /\ StoresAlone'
      BY <2>1, <3>1, <3>3 DEF OneIInv, OneUnrevoked, StoresAlone, Unrevoked, At
    <3>5. RevokesUnrevoked'
      BY <2>1, <3>1, <3>2, <3>3 DEF RevokesUnrevoked, Unrevoked
    <3>. QED
      BY <3>4, <3>5 DEF OneIInv
  <2>3. CASE Continue(w, Idle)
    BY <1>2, <2>1, <2>3 DEF Idle
  <2>. QED
    BY <1>10, <2>2, <2>3 DEF SelectRefresh
<1>11. ASSUME NEW w \in Workers, SendSMS(w) \/ FailCall(w) PROVE OneIInv'
  BY <1>2, <1>11 DEF SendSMS, FailCall, Idle
<1>12. ASSUME NEW w \in Workers, Statement(w) PROVE OneIInv'
  BY <1>6, <1>7, <1>8, <1>10, <1>11, <1>12, ConsumeOTPOne, ConsumeRefreshOne, SaveRefreshOne
     DEF Statement
<1>13. CASE SweepRefresh \/ \E p \in Phones : DeleteAccount(p)
  BY <1>3, <1>13 DEF SweepRefresh, DeleteAccount, Drop
<1>14. CASE SweepTick \/ SweepOTP \/ SweepFails \/ Tick \/ UNCHANGED vars
  BY <1>3, <1>14 DEF SweepTick, SweepOTP, SweepFails, Tick, vars
<1>15. CASE Restart
  <2>1. \A w \in Workers : calls'[w].step = "idle"
    BY <1>15 DEF Restart, NoCalls, Idle
  <2>. QED
    BY <1>15, <2>1 DEF Restart, OneIInv, OneUnrevoked, StoresAlone, RevokesUnrevoked, Unrevoked, At
<1>. QED
  BY <1>4, <1>5, <1>9, <1>12, <1>13, <1>14, <1>15 DEF Next

\* auth.go:225: where requests are served one at a time, rotation, failures in the
\* middle of it, deletions and sweeps leave a sign-in at most one token that works.
THEOREM SequentialOneToken ==
    ASSUME \A v, w \in Workers : v = w
    PROVE  Spec => []OneTokenPerLogin
<1>1. Init => OneIInv
  BY DEF Init, OneIInv, OneUnrevoked, StoresAlone, RevokesUnrevoked, Unrevoked, At, NoCalls,
     Idle, EmptyTable
<1>2. IInv /\ IInv' /\ OneIInv /\ [Next]_vars => OneIInv'
  BY OneStep
<1>3. IInv /\ OneIInv => OneTokenPerLogin
  <2>. SUFFICES ASSUME IInv, OneIInv, NEW l \in OtpIds
                PROVE  Cardinality({t \in DOMAIN refresh_tokens :
                                      login[t] = l /\ ~refresh_tokens[t].revoked}) <= 1
    BY DEF OneTokenPerLogin
  <2>. DEFINE S == {t \in DOMAIN refresh_tokens : login[t] = l /\ ~refresh_tokens[t].revoked}
  <2>1. \A s \in S : s \in Tokens /\ Unrevoked(s) /\ login[s] = l
    BY DEF IInv, TypeOK, Unrevoked
  <2>. HIDE DEF S
  <2>4. \A s, t \in S : s = t
    <3>. SUFFICES ASSUME NEW s \in S, NEW t \in S PROVE s = t
      OBVIOUS
    <3>1. login[s] = login[t] /\ login[s] \in OtpIds
      BY <2>1
    <3>2. s \in Tokens /\ t \in Tokens /\ Unrevoked(s) /\ Unrevoked(t)
      BY <2>1
    <3>3. OneUnrevoked
      BY DEF OneIInv
    <3>. QED
      BY <3>1, <3>2, <3>3, Zenon DEF OneUnrevoked
  <2>2. S = {} => Cardinality(S) <= 1
    BY FS_EmptySet
  <2>3. ASSUME NEW s \in S PROVE Cardinality(S) <= 1
    <3>1. S = {s}
      BY <2>3, <2>4
    <3>2. Cardinality({s}) = 1
      BY FS_Singleton
    <3>. QED
      BY <3>1, <3>2
  <2>. QED
    <3>1. Cardinality(S) <= 1
      BY <2>2, <2>3
    <3>. QED
      BY <3>1 DEF S
<1>. QED
  BY <1>1, <1>2, <1>3, Safety, PTL DEF Spec
=============================================================================
