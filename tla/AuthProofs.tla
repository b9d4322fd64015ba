----------------------------- MODULE AuthProofs -----------------------------
(* Theorems about check_auth and check_env.  There are no constants and    *)
(* TLC visits every state: the proofs add why the report can be trusted.   *)
EXTENDS AuthEnvironment, TLAPS

(* What check_auth would report of what it has found so far, if the file   *)
(* is there or not.                                                        *)
Method(creds) == AuthStatus(apiKey, oauthToken, creds).method

(* What was read stays right until it changes, and what was right at some  *)
(* time stays among the winners.                                           *)
ReadInv ==
  /\ pc = "idle" => winners = {} /\ changed = {}
  /\ pc # "idle" => Winner(env, files) \in winners
  /\ pc # "idle" /\ "environment" \notin changed =>
       /\ apiKey = Stripped(env.apiKey) /\ oauthToken = Stripped(env.oauthToken)
       /\ dir = ConfigDir(env)
  /\ pc = "looking" /\ "files" \notin changed => Method(files[dir] = "credentials") \in winners
  /\ pc \in {"looked", "done"} /\ "files" \notin changed =>
       present = (files[dir] = "credentials")
  /\ pc \in {"looked", "done"} /\ changed # {"environment", "files"} => Method(present) \in winners
  /\ pc = "done" => status = AuthStatus(apiKey, oauthToken, present)

-----------------------------------------------------------------------------
(* The first of the four methods that is available.                        *)
LEMMA WinnerIs ==
  ASSUME NEW e \in Environments, NEW f \in Files
  PROVE  Winner(e, f) = AuthStatus(Stripped(e.apiKey), Stripped(e.oauthToken),
                                   f[ConfigDir(e)] = "credentials").method
<1> DEFINE First(i) == /\ Precedence[i] \in Available(e, f)
                       /\ \A j \in 1..i-1 : Precedence[j] \notin Available(e, f)
           w == AuthStatus(Stripped(e.apiKey), Stripped(e.oauthToken),
                           f[ConfigDir(e)] = "credentials").method
<1>1. /\ DOMAIN Precedence = 1..4
      /\ Precedence[1] = "api_key" /\ Precedence[2] = "oauth_token"
      /\ Precedence[3] = "subscription" /\ Precedence[4] = "none"
  BY DEF Precedence
<1>2. /\ "api_key" \in Available(e, f) <=> Stripped(e.apiKey)
      /\ "oauth_token" \in Available(e, f) <=> Stripped(e.oauthToken)
      /\ "subscription" \in Available(e, f) <=> f[ConfigDir(e)] = "credentials"
      /\ "none" \in Available(e, f)
  BY DEF Available
<1>3. \A i \in 1..4 : First(i) => Precedence[i] = w
  BY <1>1, <1>2 DEF AuthStatus
<1>4. \E i \in 1..4 : First(i)
  BY <1>1, <1>2
<1> HIDE DEF First, w
<1>5. (CHOOSE i \in 1..4 : First(i)) \in 1..4 /\ First(CHOOSE i \in 1..4 : First(i))
  BY <1>4
<1>6. Precedence[CHOOSE i \in 1..4 : First(i)] = w
  BY <1>3, <1>5
<1> QED BY <1>1, <1>6 DEF Winner, First, w

LEMMA MethodTypes ==
  ASSUME NEW key \in BOOLEAN, NEW token \in BOOLEAN, NEW creds \in BOOLEAN
  PROVE  /\ AuthStatus(key, token, creds) \in [ok : BOOLEAN, method : Methods, ignores : BOOLEAN]
         /\ AuthStatus(key, token, creds).ok <=> AuthStatus(key, token, creds).method # "none"
BY DEF AuthStatus, Methods

LEMMA WinnerType ==
  ASSUME NEW e \in Environments, NEW f \in Files PROVE Winner(e, f) \in Methods
BY WinnerIs DEF AuthStatus, Methods

LEMMA NextTypeOK == TypeOK /\ [Next]_vars => TypeOK'
<1> SUFFICES ASSUME TypeOK, [Next]_vars PROVE TypeOK'
  OBVIOUS
<1> USE DEF TypeOK, locals, history
<1>1. CASE CheckAuth
  BY <1>1, WinnerType DEF CheckAuth, Stripped, ConfigDir, Dirs
<1>2. CASE LookForFile
  BY <1>2 DEF LookForFile
<1>3. CASE Report
  BY <1>3, MethodTypes DEF Report
<1>4. CASE ChangeEnvironment
  <2>1. env' \in Environments /\ files' = files
    BY <1>4 DEF ChangeEnvironment, Environments, Values
  <2>2. Winner(env', files') \in Methods
    BY <2>1, WinnerType
  <2>3. winners' \subseteq Methods /\ changed' \subseteq {"environment", "files"}
    BY <1>4, <2>2 DEF ChangeEnvironment, Changes
  <2> QED BY <1>4, <2>1, <2>3 DEF ChangeEnvironment, Changes
<1>5. CASE ChangeFiles
  <2>1. files' \in Files /\ env' = env
    BY <1>5 DEF ChangeFiles, Files, Dirs
  <2>2. Winner(env', files') \in Methods
    BY <2>1, WinnerType
  <2>3. winners' \subseteq Methods /\ changed' \subseteq {"environment", "files"}
    BY <1>5, <2>2 DEF ChangeFiles, Changes
  <2> QED BY <1>5, <2>1, <2>3 DEF ChangeFiles, Changes
<1>6. CASE Done \/ UNCHANGED vars
  BY <1>6 DEF Done, vars
<1> QED BY <1>1, <1>2, <1>3, <1>4, <1>5, <1>6 DEF Next

(* The types, and that a status is ok exactly when it names a method.      *)
THEOREM AuthTypeCorrect == Spec => []TypeOK
<1>1. Init => TypeOK
  <2>1. /\ NoStatus \in [ok : BOOLEAN, method : Methods, ignores : BOOLEAN]
        /\ NoStatus.ok <=> NoStatus.method # "none"
    BY DEF NoStatus, Methods
  <2> QED BY <2>1 DEF Init, TypeOK, Dirs
<1> QED BY <1>1, NextTypeOK, PTL DEF Spec

-----------------------------------------------------------------------------
LEMMA NextReadInv == TypeOK /\ ReadInv /\ [Next]_vars => ReadInv'
<1> SUFFICES ASSUME TypeOK, ReadInv, [Next]_vars PROVE ReadInv'
  OBVIOUS
<1> USE DEF TypeOK, ReadInv, Method, locals, history
<1>0. Winner(env, files) = AuthStatus(Stripped(env.apiKey), Stripped(env.oauthToken),
                                      files[ConfigDir(env)] = "credentials").method
  BY WinnerIs
<1>1. CASE CheckAuth
  BY <1>0, <1>1 DEF CheckAuth
<1>2. CASE LookForFile
  <2>1. changed # {"environment", "files"} => "environment" \notin changed \/ "files" \notin changed
    BY DEF TypeOK
  <2>2. present' = (files[dir] = "credentials")
        /\ UNCHANGED <<env, files, apiKey, oauthToken, dir, status, winners, changed>>
        /\ pc = "looking" /\ pc' = "looked"
    BY <1>2 DEF LookForFile
  <2>3. changed # {"environment", "files"} => Method(files[dir] = "credentials") \in winners
    BY <1>0, <2>1, <2>2
  <2>4. present' = TRUE \/ present' = FALSE
    BY <2>2
  <2> QED BY <2>2, <2>3, <2>4
<1>3. CASE Report
  BY <1>3 DEF Report
<1>4. CASE ChangeEnvironment
  BY <1>4 DEF ChangeEnvironment, Changes
<1>5. CASE ChangeFiles
  BY <1>5 DEF ChangeFiles, Changes
<1>6. CASE Done \/ UNCHANGED vars
  BY <1>6 DEF Done, vars
<1> QED BY <1>1, <1>2, <1>3, <1>4, <1>5, <1>6 DEF Next

(* The inductive invariant of a call: what it has read is right until it   *)
(* changes.                                                                *)
THEOREM ReadInvariant == Spec => []ReadInv
<1>1. Init => ReadInv
  BY DEF Init, ReadInv
<1> QED BY <1>1, NextReadInv, AuthTypeCorrect, PTL DEF Spec

(* What check_auth reports was right at one moment of the call, unless     *)
(* both the environment and the files changed during it.                   *)
THEOREM ReportAlwaysWasRight == Spec => []ReportWasRight
<1>1. TypeOK /\ ReadInv => ReportWasRight
  <2> SUFFICES ASSUME TypeOK, ReadInv, pc = "done" PROVE ReportWasRight
    BY DEF ReportWasRight
  <2>1. status = AuthStatus(apiKey, oauthToken, present)
    BY DEF ReadInv
  <2>2. changed # {"environment", "files"} => status.method \in winners
    BY <2>1 DEF ReadInv, Method
  <2>3. changed = {} => (status.ignores <=> /\ status.method = "api_key"
                                           /\ Available(env, files) # {"none", "api_key"})
    <3> SUFFICES ASSUME changed = {}
                 PROVE  status.ignores <=> /\ status.method = "api_key"
                                           /\ Available(env, files) # {"none", "api_key"}
      OBVIOUS
    <3>1. /\ apiKey = Stripped(env.apiKey) /\ oauthToken = Stripped(env.oauthToken)
          /\ present = (files[ConfigDir(env)] = "credentials")
      BY DEF ReadInv
    <3>2. CASE apiKey /\ ~oauthToken /\ ~present
      BY <2>1, <3>1, <3>2 DEF AuthStatus, Available
    <3>3. CASE apiKey /\ (oauthToken \/ present)
      <4>1. "oauth_token" \in Available(env, files) \/ "subscription" \in Available(env, files)
        BY <3>1, <3>3 DEF Available
      <4>2. Available(env, files) # {"none", "api_key"}
        BY <4>1
      <4>3. status.ignores = TRUE /\ status.method = "api_key"
        BY <2>1, <3>3 DEF AuthStatus
      <4> QED BY <4>2, <4>3
    <3>4. CASE ~apiKey
      BY <2>1, <3>4 DEF AuthStatus
    <3> QED BY <3>2, <3>3, <3>4
  <2> QED BY <2>2, <2>3 DEF ReportWasRight
<1> QED BY <1>1, ReadInvariant, AuthTypeCorrect, PTL

(* On every environment and every state of the files the doctor agrees     *)
(* with check_auth: on the key unless it is blank, on the token that wins, *)
(* and on the directory unless CLAUDE_CONFIG_DIR has white space to strip. *)
THEOREM DoctorAlwaysAgrees == Spec => []DoctorAgrees
<1>1. TypeOK => DoctorAgrees
  <2> SUFFICES ASSUME TypeOK PROVE DoctorAgrees
    OBVIOUS
  <2>1. /\ env.apiKey \in Values /\ env.oauthToken \in Values /\ env.configDir \in Values
    BY DEF TypeOK, Environments
  <2>2. Winner(env, files) = AuthStatus(Stripped(env.apiKey), Stripped(env.oauthToken),
                                        files[ConfigDir(env)] = "credentials").method
    BY WinnerIs DEF TypeOK
  <2> QED BY <2>1, <2>2 DEF DoctorAgrees, CheckEnv, DirContent, AuthStatus, Stripped, ConfigDir,
                            Values
<1> QED BY <1>1, AuthTypeCorrect, PTL
=============================================================================
