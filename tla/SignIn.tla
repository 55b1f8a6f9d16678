-------------------------------- MODULE SignIn --------------------------------
(***************************************************************************)
(* Signing in, for one email address: a customer's, who signs in with a    *)
(* code sent to it, or an admin's, who signs in with a password and resets *)
(* it with a code. Both then hold a refresh token that each use replaces   *)
(* by a new one. No call here runs in a transaction: a code or a token is  *)
(* read, compared, and then written.                                       *)
(***************************************************************************)
EXTENDS Requests

CONSTANTS
  MaxAttempts,  \* wrong guesses after which a code is refused
  MaxCodes,     \* bound: codes ever sent
  MaxTokens,    \* bound: refresh tokens ever issued
  Passwords

ASSUME AttemptsAssumption == MaxAttempts \in Nat \ {0}
ASSUME CodesBound == MaxCodes \in Nat
ASSUME TokensBound == MaxTokens \in Nat
ASSUME RequestsAreFinite == IsFiniteSet(Requests) /\ Requests # {}

VARIABLES
  audience,  \* whose address it is
  account,   \* the row of the customer or the admin
  codes,     \* the codes sent, oldest first
  tokens     \* the refresh tokens issued, and the code each goes back to

signInVars == <<audience, account, codes, tokens>>

Purposes == {"REGISTER", "LOGIN", "RESET_PASSWORD"}

\* After the resend cooldown a code is `open`, until it has expired.
Ages == <<"fresh", "open", "expired">>

OfPurpose(purpose) == {c \in DOMAIN codes : codes[c].purpose = purpose}

NewestCode(ids) == CHOOSE c \in ids : \A other \in ids : other <= c

purposeNow ==
  CASE audience = "admin" -> "RESET_PASSWORD"
    [] audience = "customer" /\ account.verified -> "LOGIN"
    [] OTHER -> "REGISTER"

validate == account.known /\ account.isActive

Password == 0   \* in place of a code: signed in with the password

SignInInit ==
  /\ RequestsInit
  /\ audience \in {"customer", "admin"}
  /\ account \in [known : {audience = "admin"}, isActive : {TRUE},
                  verified : {FALSE}, password : Passwords]
  /\ codes = <<>> /\ tokens = <<>>

-----------------------------------------------------------------------------
(* Sending a code: requestOtp, forgotPassword and issueOtp. *)

\* An account that is inactive gets the same answer and no code.
AskCode(r) ==
  /\ audience = "customer" /\ (account.known => validate)
  /\ Begin(r, [step |-> IF account.known THEN "cooldown" ELSE "signup",
               purpose |-> purposeNow])
  /\ UNCHANGED signInVars

\* So does an admin's that is inactive or not known.
AskReset(r) ==
  /\ audience = "admin" /\ validate
  /\ Begin(r, [step |-> "cooldown", purpose |-> purposeNow])
  /\ UNCHANGED signInVars

\* The address is unique: of two first requests at once, one throws.
SignUp(r) ==
  /\ At(r, "signup")
  /\ ~account.known
  /\ account' = [account EXCEPT !.known = TRUE]
  /\ Continue(r, [step |-> "cooldown"])
  /\ UNCHANGED <<audience, codes, tokens>>

CheckCooldown(r) ==
  LET sent == OfPurpose(job[r].purpose)
  IN  /\ At(r, "cooldown")
      /\ sent # {} => codes[NewestCode(sent)].age # "fresh"
      /\ Continue(r, [step |-> "send"])
      /\ UNCHANGED signInVars

SendCode(r) ==
  /\ At(r, "send") /\ Len(codes) < MaxCodes
  /\ codes' = Append(codes, [purpose |-> job[r].purpose, age |-> "fresh",
                             attempts |-> 0, consumed |-> FALSE])
  /\ End(r)
  /\ UNCHANGED <<audience, account, tokens>>

-----------------------------------------------------------------------------
(* Using a code: verifyOtp of both services, and resetPassword. *)

AskVerify(r) ==
  /\ audience = "customer" /\ validate
  /\ Begin(r, [step |-> "find", purpose |-> purposeNow])
  /\ UNCHANGED signInVars

\* With a code, a new password may be set for an inactive admin too.
AskResetPassword(r) ==
  /\ audience = "admin"
  /\ Begin(r, [step |-> "find", purpose |-> purposeNow])
  /\ UNCHANGED signInVars

Unconsumed(purpose) == {c \in OfPurpose(purpose) : ~codes[c].consumed}

\* Mistake: one attempt too many.
mayTryAgain(code) == code.age # "expired" /\ code.attempts <= MaxAttempts

mayTry(code) == code.age # "expired" /\ code.attempts < MaxAttempts

\* What is written after the comparison depends on what was compared.
FindCode(r) ==
  LET open == Unconsumed(job[r].purpose)
      c == NewestCode(open)
  IN  /\ At(r, "find") /\ open # {} /\ mayTry(codes[c])
      /\ \E step \in {"consume", "count"} :
           Continue(r, [step |-> step, code |-> c])
      /\ UNCHANGED signInVars

CountAttempt(r) ==
  /\ At(r, "count")
  /\ codes' = [codes EXCEPT ![job[r].code].attempts = @ + 1]
  /\ End(r)
  /\ UNCHANGED <<audience, account, tokens>>

Consume(r) ==
  LET c == job[r].code
  IN  /\ At(r, "consume")
      /\ codes' = [codes EXCEPT ![c].consumed = TRUE]
      /\ Proceed(r, [step |-> IF audience = "admin" THEN "password"
                              ELSE "stamp"],
                 codes[c].consumed)
      /\ UNCHANGED <<audience, account, tokens>>

Stamp(r) ==
  /\ At(r, "stamp")
  /\ account' = [account EXCEPT !.verified = TRUE]
  /\ Continue(r, [step |-> "issue"])
  /\ UNCHANGED <<audience, codes, tokens>>

SetPassword(r) ==
  /\ At(r, "password")
  /\ \E password \in Passwords :
       account' = [account EXCEPT !.password = password]
  /\ End(r)
  /\ UNCHANGED <<audience, codes, tokens>>

-----------------------------------------------------------------------------
(* With the right password: login and changePassword. *)

AskLogin(r) ==
  /\ audience = "admin" /\ validate
  /\ Begin(r, [step |-> "issue", code |-> Password])
  /\ UNCHANGED signInVars

AskChange(r) ==
  /\ audience = "admin" /\ validate
  /\ Begin(r, [step |-> "password"])
  /\ UNCHANGED signInVars

-----------------------------------------------------------------------------
(* Refresh tokens. *)

Issued(code) == [code |-> code, revoked |-> FALSE, expired |-> FALSE]

IssueTokens(r) ==
  /\ At(r, "issue") /\ Len(tokens) < MaxTokens
  /\ tokens' = Append(tokens, Issued(job[r].code))
  /\ End(r)
  /\ UNCHANGED <<audience, account, codes>>

\* Neither the token nor the account's being active is looked at again.
AskRefresh(r) ==
  \E t \in DOMAIN tokens :
    /\ ~tokens[t].revoked /\ ~tokens[t].expired
    /\ Begin(r, [step |-> "rotate", token |-> t, code |-> tokens[t].code])
    /\ UNCHANGED signInVars

\* Mistake: the token that was used stays good.
issueOnly(ts, t) == ts

revoked(ts, t) == [ts EXCEPT ![t].revoked = TRUE]

Rotate(r) ==
  LET t == job[r].token
  IN  /\ At(r, "rotate")
      /\ tokens' = revoked(tokens, t)
      /\ Proceed(r, [step |-> "issue"], tokens[t].revoked)
      /\ UNCHANGED <<audience, account, codes>>

Logout ==
  \E t \in DOMAIN tokens :
    /\ ~tokens[t].expired
    /\ tokens' = revoked(tokens, t)
    /\ UNCHANGED <<audience, account, codes, inFlight>>

-----------------------------------------------------------------------------

\* A throw leaves what was written before it, as a crash does.
AbandonSignIn(r) == Interrupt(r) /\ UNCHANGED signInVars

SetActive ==
  /\ account.known
  /\ account' = [account EXCEPT !.isActive = ~@]
  /\ UNCHANGED <<audience, codes, tokens, inFlight>>

\* An older code is never the fresher one.
CodeAges ==
  \E c \in DOMAIN codes, i \in {1, 2} :
    /\ codes[c].age = Ages[i]
    /\ \A older \in 1..(c - 1) : codes[older].age # Ages[i]
    /\ codes' = [codes EXCEPT ![c].age = Ages[i + 1]]
    /\ UNCHANGED <<audience, account, tokens, inFlight>>

TokenExpires ==
  \E t \in DOMAIN tokens :
    /\ ~tokens[t].expired
    /\ tokens' = [tokens EXCEPT ![t].expired = TRUE]
    /\ UNCHANGED <<audience, account, codes, inFlight>>

CustomerCalls(r) ==
  AskCode(r) \/ SignUp(r) \/ AskVerify(r) \/ Stamp(r)

AdminCalls(r) ==
  \/ AskReset(r) \/ AskResetPassword(r) \/ SetPassword(r)
  \/ AskLogin(r) \/ AskChange(r)

SessionCalls(r) == AskRefresh(r) \/ Rotate(r) \/ Logout

SignInNext ==
  \/ \E r \in Requests :
       \/ CustomerCalls(r) \/ AdminCalls(r) \/ SessionCalls(r)
       \/ CheckCooldown(r) \/ SendCode(r)
       \/ FindCode(r) \/ CountAttempt(r) \/ Consume(r)
       \/ IssueTokens(r) \/ AbandonSignIn(r)
  \/ SetActive \/ CodeAges \/ TokenExpires

SignInSpec == SignInInit /\ [][SignInNext]_<<signInVars, inFlight>>

-----------------------------------------------------------------------------

SignInTypeOK ==
  /\ audience \in {"customer", "admin"}
  /\ account \in [known : BOOLEAN, isActive : BOOLEAN, verified : BOOLEAN,
                  password : Passwords]
  /\ codes \in Seq([purpose : Purposes,
                    age : {"fresh", "open", "expired"},
                    attempts : Nat, consumed : BOOLEAN])
  /\ tokens \in Seq([code : Nat, revoked : BOOLEAN, expired : BOOLEAN])

\* Attempts are counted after the comparison, so that requests at once go past
\* the limit: by no more than there are requests beside the first.
AttemptsBounded ==
  \A c \in DOMAIN codes :
    codes[c].attempts <= MaxAttempts + Cardinality(Requests) - 1

\* However often its token is refreshed, one code keeps one session going,
\* until two requests take the same code or the same token at once.
OneSessionPerCode ==
  ~overtaken =>
    \A s, t \in DOMAIN tokens :
      ( /\ tokens[s].code = tokens[t].code /\ tokens[s].code # Password
        /\ ~tokens[s].revoked /\ ~tokens[t].revoked )
      => s = t
===============================================================================
