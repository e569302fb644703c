--------------------------- MODULE SessionsProofs ---------------------------
(***************************************************************************)
(* Theorems about Sessions, for every set of users, sessions and requests. *)
(*                                                                         *)
(* TypeCorrect comes first.  PasswordChangeEndsLogins is not inductive:    *)
(* PasswordInv adds who owns a session being created, who holds a row lock *)
(* and what the two prefix deletions have removed while it was held.  Most *)
(* steps do not touch any of that: QuietStep disposes of them together,    *)
(* MintStep of the three steps that draw a uuid, and the steps that write  *)
(* a key, take a lock or commit have a lemma each.                         *)
(***************************************************************************)
EXTENDS Sessions, TLAPS

-----------------------------------------------------------------------------
(* Type correctness.  A step reads row[user] at awaits where the handler    *)
(* has a user, so TypeOK is inductive only together with PcMatchesOp.      *)

TypeInv == TypeOK /\ PcMatchesOp

ReqOK == req \in [Requests -> RequestState] /\ PcMatchesOp

LEMMA IdleType == Idle \in RequestState /\ Fits(Idle)
BY DEF RequestState, Idle, Labels, RequestOps, WriteOps, Freshness, Fits, AtPcs,
   RtPcs, WritePcs

LEMMA AssignType ==
  ASSUME TypeInv, NEW r \in Requests, NEW new \in RequestState, Fits(new),
         req' = [req EXCEPT ![r] = new]
  PROVE  ReqOK'
BY DEF TypeInv, TypeOK, PcMatchesOp, ReqOK

LEMMA GotoType ==
  ASSUME TypeInv, NEW r \in Requests, NEW label \in Labels,
         Fits([req[r] EXCEPT !.pc = label]), Goto(r, label)
  PROVE  ReqOK'
<1>1. req[r] \in RequestState BY DEF TypeInv, TypeOK
<1>2. [req[r] EXCEPT !.pc = label] \in RequestState BY <1>1 DEF RequestState
<1> QED BY <1>2, AssignType DEF Goto

LEMMA FinishType == ASSUME TypeInv, NEW r \in Requests, Finish(r) PROVE ReqOK'
BY IdleType, AssignType DEF Finish

LEMMA CollectType ==
  ASSUME TypeInv, NEW r \in Requests, NEW label \in Labels, NEW keys \in SUBSET Sessions,
         Fits([req[r] EXCEPT !.pc = label, !.scan = keys]), Collect(r, label, keys)
  PROVE  ReqOK'
<1>1. req[r] \in RequestState BY DEF TypeInv, TypeOK
<1>2. [req[r] EXCEPT !.pc = label, !.scan = keys] \in RequestState
  BY <1>1 DEF RequestState
<1> QED BY <1>2, AssignType DEF Collect

LEMMA MintType ==
  ASSUME TypeInv, NEW r \in Requests, NEW s \in Sessions, NEW multi \in BOOLEAN,
         NEW via \in LoginOps \cup {"refresh"}, via = req[r].op, req[r].pc # "idle",
         NEW old \in Sessions \cup {None}, Mint(r, s, via, old, multi)
  PROVE  ReqOK' /\ sess' \in [Sessions -> SessionInfo]
<1> DEFINE label == IF multi THEN "at_uncache" ELSE "at_scan"
           new == [req[r] EXCEPT !.pc = label, !.sess = s, !.multi = multi]
<1>1. /\ req[r] \in RequestState /\ sess \in [Sessions -> SessionInfo]
      /\ Fits(req[r]) /\ req[r].user \in Users
  BY DEF TypeInv, TypeOK, PcMatchesOp, Fits
<1>2. label \in Labels /\ label \in AtPcs BY DEF Labels, AtPcs
<1>3. new \in RequestState
  <2> HIDE DEF label
  <2> QED BY <1>1, <1>2 DEF RequestState
<1>4. Fits(new)
  BY <1>1 DEF RequestState, Fits, AtPcs, RtPcs, WritePcs, WriteOps, LoginOps
<1>5. ReqOK' BY <1>3, <1>4, AssignType DEF Mint
<1>6. sess' \in [Sessions -> SessionInfo] BY <1>1 DEF Mint, SessionInfo, LoginOps
<1> QED BY <1>5, <1>6

LEMMA StartTypeInv ==
  ASSUME TypeInv, NEW r \in Requests, Start(r) PROVE TypeInv'
<1>1. /\ row \in [Users -> Rows] /\ sess \in [Sessions -> SessionInfo]
      /\ jar \subseteq Sessions /\ held \subseteq Sessions
  BY DEF TypeInv, TypeOK
<1>2. ASSUME NEW u \in Users, NEW op \in {"login", "swagger"}, LoginStart(r, u, op)
      PROVE  TypeInv'
  <2> DEFINE new == [Idle EXCEPT !.pc = "login_time", !.op = op, !.user = u,
                                 !.multi = row[u].multi]
  <2>1. row[u].multi \in BOOLEAN BY <1>1 DEF Rows
  <2>2. new \in RequestState /\ Fits(new)
    BY <2>1 DEF Idle, RequestState, RequestOps, Labels, Freshness, Fits, LoginOps,
       AtPcs, RtPcs, WritePcs
  <2>3. ReqOK' BY <1>2, <2>2, AssignType DEF LoginStart
  <2> QED BY <1>2, <2>3 DEF LoginStart, TypeInv, TypeOK, ReqOK
<1>3. ASSUME NEW c \in jar, RefreshStart(r, c) PROVE TypeInv'
  <2> DEFINE u == sess[c].user
             label == IF row[u].multi THEN "rt_get" ELSE "remote_check"
             new == [Idle EXCEPT !.pc = label, !.op = "refresh", !.user = u,
                                 !.old = c, !.multi = row[u].multi]
  <2>1. u \in Users /\ label \in {"rt_get", "remote_check"}
    BY <1>3 DEF RefreshStart, MaySignIn
  <2>2. row[u].multi \in BOOLEAN BY <1>1, <2>1 DEF Rows
  <2>3. new \in RequestState /\ Fits(new)
    <3> HIDE DEF label, u
    <3> QED BY <1>1, <2>1, <2>2 DEF Idle, RequestState, RequestOps, Labels, Freshness,
               Fits, AtPcs, RtPcs, WritePcs
  <2>4. ReqOK' BY <1>3, <2>3, AssignType DEF RefreshStart
  <2> QED BY <1>3, <2>4 DEF RefreshStart, TypeInv, TypeOK, ReqOK
<1>4. ASSUME NEW s \in held, AuthStart(r, s) PROVE TypeInv'
  <2> DEFINE new == [Idle EXCEPT !.pc = "auth_tok", !.old = s, !.user = sess[s].user]
  <2>1. sess[s].user \in Users BY <1>4 DEF AuthStart
  <2>2. new \in RequestState /\ Fits(new)
    BY <1>1, <2>1 DEF Idle, RequestState, RequestOps, Labels, Freshness, Fits,
       AtPcs, RtPcs, WritePcs
  <2>3. ReqOK' BY <1>4, <2>2, AssignType DEF AuthStart
  <2> QED BY <1>4, <2>3 DEF AuthStart, TypeInv, TypeOK, ReqOK
<1>5. ASSUME NEW s \in held, NEW c \in jar \cup {None}, LogoutStart(r, s, c)
      PROVE  TypeInv'
  <2> DEFINE new == [Idle EXCEPT !.pc = "out_tok", !.op = "logout",
                       !.user = sess[s].user, !.old = s, !.val = (c # None)]
  <2>1. sess[s].user \in Users BY <1>5 DEF LogoutStart
  <2>2. new \in RequestState /\ Fits(new)
    BY <1>1, <2>1 DEF Idle, RequestState, RequestOps, Labels, Freshness, Fits,
       AtPcs, RtPcs, WritePcs
  <2>3. ReqOK' BY <1>5, <2>2, AssignType DEF LogoutStart
  <2> QED BY <1>1, <1>5, <2>3 DEF LogoutStart, TypeInv, TypeOK, ReqOK
<1>6. ASSUME NEW u \in Users, NEW k \in held, NEW op \in WriteOps, NEW val \in BOOLEAN,
             WriteStart(r, u, k, op, val)
      PROVE  TypeInv'
  <2> DEFINE new == [Idle EXCEPT !.pc = "w_update", !.op = op, !.user = u,
                                 !.old = k, !.val = val]
  <2>1. new \in RequestState /\ Fits(new)
    BY <1>1 DEF Idle, RequestState, RequestOps, Labels, Freshness, Fits,
       AtPcs, RtPcs, WritePcs
  <2>2. ReqOK' BY <1>6, <2>1, AssignType DEF WriteStart
  <2> QED BY <1>6, <2>2 DEF WriteStart, TypeInv, TypeOK, ReqOK
<1> QED BY <1>2, <1>3, <1>4, <1>5, <1>6 DEF Start

LEMMA StepTypeInv ==
  ASSUME TypeInv, NEW r \in Requests, Step(r) PROVE TypeInv'
<1>1. /\ row \in [Users -> Rows] /\ lock \in [Users -> Requests \cup {None}]
      /\ sess \in [Sessions -> SessionInfo] /\ cache \in [Users -> Freshness]
      /\ req \in [Requests -> RequestState]
      /\ tok \subseteq Sessions /\ ref \subseteq Sessions
      /\ jar \subseteq Sessions /\ held \subseteq Sessions
      /\ outdated \subseteq Sessions /\ forced \subseteq Sessions
  BY DEF TypeInv, TypeOK
<1>2. req[r] \in RequestState /\ Fits(req[r]) BY DEF TypeInv, TypeOK, PcMatchesOp
<1>3. /\ req[r].multi \in BOOLEAN /\ req[r].copy \in Freshness
      /\ req[r].sess \in Sessions \cup {None} /\ req[r].old \in Sessions \cup {None}
  BY <1>2 DEF RequestState
<1>4. CASE LoginTime(r)
  <2>1. req[r].op \in LoginOps /\ req[r].user \in Users /\ req[r].pc # "idle"
    BY <1>2, <1>4 DEF LoginTime, Fits
  <2>2. PICK s \in Sessions, multi \in BOOLEAN : Mint(r, s, req[r].op, None, multi)
    BY <1>1, <1>3, <2>1, <1>4 DEF LoginTime, Rows
  <2>3. ReqOK' /\ sess' \in [Sessions -> SessionInfo] BY <2>1, <2>2, MintType
  <2>4. lock' \in [Users -> Requests \cup {None}] BY <1>1, <1>4 DEF LoginTime
  <2> QED BY <1>1, <2>3, <2>4, <1>4 DEF LoginTime, TypeInv, TypeOK, ReqOK
<1>5. CASE LoginTimeDeleted(r)
  <2>1. req[r].op \in LoginOps /\ req[r].pc # "idle"
    BY <1>2, <1>5 DEF LoginTimeDeleted, Fits
  <2>2. ReqOK' /\ sess' \in [Sessions -> SessionInfo]
    <3>1. CASE Finish(r) /\ UNCHANGED sess BY <1>1, <3>1, FinishType
    <3>2. ASSUME NEW s \in Sessions, Mint(r, s, req[r].op, None, req[r].multi)
          PROVE  ReqOK' /\ sess' \in [Sessions -> SessionInfo]
      BY <1>3, <2>1, <3>2, MintType
    <3> QED BY <3>1, <3>2, <1>5 DEF LoginTimeDeleted
  <2> QED BY <1>1, <2>2, <1>5 DEF LoginTimeDeleted, TypeInv, TypeOK, ReqOK
<1>6. CASE AtScan(r)
  <2>1. Fits([req[r] EXCEPT !.pc = "at_del", !.scan = tok \cap Covered(req[r].user)])
    BY <1>2, <1>6 DEF AtScan, RequestState, Fits, LoginOps, WriteOps, AtPcs, RtPcs,
       WritePcs
  <2>2. "at_del" \in Labels BY DEF Labels
  <2>3. ReqOK' BY <1>1, <2>1, <2>2, <1>6, CollectType DEF AtScan
  <2> QED BY <1>1, <2>3, <1>6 DEF AtScan, TypeInv, TypeOK, ReqOK
<1>7. CASE AtDel(r)
  <2>1. Fits([req[r] EXCEPT !.pc = "at_uncache", !.scan = {}])
    BY <1>2, <1>7 DEF AtDel, RequestState, Fits, LoginOps, WriteOps, AtPcs, RtPcs,
       WritePcs
  <2>2. "at_uncache" \in Labels /\ {} \in SUBSET Sessions BY DEF Labels
  <2>3. Collect(r, "at_uncache", {}) BY <1>7 DEF AtDel
  <2>4. ReqOK' BY <2>1, <2>2, <2>3, CollectType
  <2> QED BY <1>1, <2>4, <1>7 DEF AtDel, TypeInv, TypeOK, ReqOK
<1>8. CASE AtUncache(r)
  <2>1. Fits([req[r] EXCEPT !.pc = "at_set"]) /\ "at_set" \in Labels
    BY <1>2, <1>8 DEF AtUncache, RequestState, Labels, Fits, LoginOps, WriteOps,
       AtPcs, RtPcs, WritePcs
  <2>2. ReqOK' BY <2>1, <1>8, GotoType DEF AtUncache
  <2> QED BY <1>1, <2>2, <1>8 DEF AtUncache, TypeInv, TypeOK, ReqOK, Freshness
<1>9. CASE AtSet(r)
  <2> DEFINE label == CASE req[r].op = "swagger" -> "respond"
                        [] req[r].op # "swagger" /\ req[r].multi -> "rt_set"
                        [] OTHER -> "rt_scan"
  <2>1. req[r].sess \in Sessions /\ label \in {"respond", "rt_set", "rt_scan"}
    BY <1>2, <1>3, <1>9 DEF AtSet, Fits, LoginOps, WriteOps, AtPcs, RtPcs, WritePcs
  <2>2. Fits([req[r] EXCEPT !.pc = label]) /\ label \in Labels
    <3> HIDE DEF label
    <3> QED BY <1>2, <2>1, <1>9 DEF AtSet, RequestState, Labels, Fits, LoginOps,
               WriteOps, AtPcs, RtPcs, WritePcs
  <2>3. ReqOK' BY <2>2, <1>9, GotoType DEF AtSet
  <2>4. sess' \in [Sessions -> SessionInfo] BY <1>1, <2>1, <1>9 DEF AtSet, SessionInfo
  <2> QED BY <1>1, <2>1, <2>3, <2>4, <1>9 DEF AtSet, TypeInv, TypeOK, ReqOK
<1>10. CASE RtScan(r)
  <2>1. Fits([req[r] EXCEPT !.pc = "rt_del", !.scan = ref \cap Covered(req[r].user)])
    BY <1>2, <1>10 DEF RtScan, RequestState, Fits, LoginOps, WriteOps, AtPcs, RtPcs,
       WritePcs
  <2>2. "rt_del" \in Labels BY DEF Labels
  <2>3. ReqOK' BY <1>1, <2>1, <2>2, <1>10, CollectType DEF RtScan
  <2> QED BY <1>1, <2>3, <1>10 DEF RtScan, TypeInv, TypeOK, ReqOK
<1>11. CASE RtDel(r)
  <2>1. Fits([req[r] EXCEPT !.pc = "rt_set", !.scan = {}])
    BY <1>2, <1>11 DEF RtDel, RequestState, Fits, LoginOps, WriteOps, AtPcs, RtPcs,
       WritePcs
  <2>2. "rt_set" \in Labels /\ {} \in SUBSET Sessions BY DEF Labels
  <2>3. Collect(r, "rt_set", {}) BY <1>11 DEF RtDel
  <2>4. ReqOK' BY <2>1, <2>2, <2>3, CollectType
  <2> QED BY <1>1, <2>4, <1>11 DEF RtDel, TypeInv, TypeOK, ReqOK
<1>12. CASE RtSet(r)
  <2>1. req[r].sess \in Sessions
    BY <1>2, <1>12 DEF RtSet, Fits, LoginOps, WriteOps, AtPcs, RtPcs, WritePcs
  <2>2. Fits([req[r] EXCEPT !.pc = "respond"]) /\ "respond" \in Labels
    BY <1>2, <1>12 DEF RtSet, RequestState, Labels, Fits, LoginOps, WriteOps, AtPcs,
       RtPcs, WritePcs
  <2>3. ReqOK' BY <2>2, <1>12, GotoType DEF RtSet
  <2>4. sess' \in [Sessions -> SessionInfo] BY <1>1, <2>1, <1>12 DEF RtSet, SessionInfo
  <2> QED BY <1>1, <2>1, <2>3, <2>4, <1>12 DEF RtSet, TypeInv, TypeOK, ReqOK
<1>13. CASE Respond(r)
  <2>1. req[r].sess \in Sessions
    BY <1>2, <1>13 DEF Respond, Fits, LoginOps, WriteOps, AtPcs, RtPcs, WritePcs
  <2>2. ASSUME req[r].op # "refresh"
        PROVE  Fits([req[r] EXCEPT !.pc = "commit"]) /\ "commit" \in Labels
    BY <1>2, <2>2, <1>13 DEF Respond, RequestState, Labels, Fits, LoginOps, WriteOps,
       AtPcs, RtPcs, WritePcs
  <2>3. ReqOK' BY <2>2, <1>13, GotoType, FinishType DEF Respond
  <2> QED BY <1>1, <2>1, <2>3, <1>13 DEF Respond, TypeInv, TypeOK, ReqOK
<1>14. CASE RemoteCheck(r)
  <2>1. Fits([req[r] EXCEPT !.pc = "rt_get"]) /\ "rt_get" \in Labels
    BY <1>2, <1>14 DEF RemoteCheck, RequestState, Labels, Fits, LoginOps, WriteOps,
       AtPcs, RtPcs, WritePcs
  <2>2. ReqOK' BY <2>1, <1>14, GotoType, FinishType DEF RemoteCheck
  <2> QED BY <1>1, <2>2, <1>14 DEF RemoteCheck, TypeInv, TypeOK, ReqOK
<1>15. CASE RtGet(r)
  <2>1. Fits([req[r] EXCEPT !.pc = "rt_drop"]) /\ "rt_drop" \in Labels
    BY <1>2, <1>15 DEF RtGet, RequestState, Labels, Fits, LoginOps, WriteOps, AtPcs,
       RtPcs, WritePcs
  <2>2. ReqOK' BY <2>1, <1>15, GotoType, FinishType DEF RtGet
  <2> QED BY <1>1, <2>2, <1>15 DEF RtGet, TypeInv, TypeOK, ReqOK
<1>16. CASE RtDrop(r)
  <2>1. Fits([req[r] EXCEPT !.pc = "at_drop"]) /\ "at_drop" \in Labels
    BY <1>2, <1>16 DEF RtDrop, RequestState, Labels, Fits, LoginOps, WriteOps, AtPcs,
       RtPcs, WritePcs
  <2>2. ReqOK' BY <2>1, <1>16, GotoType DEF RtDrop
  <2> QED BY <1>1, <2>2, <1>16 DEF RtDrop, TypeInv, TypeOK, ReqOK
<1>17. CASE AtDrop(r)
  <2>1. req[r].op = "refresh" /\ req[r].pc # "idle" BY <1>2, <1>17 DEF AtDrop, Fits
  <2>2. PICK s \in Sessions : Mint(r, s, "refresh", req[r].old, req[r].multi)
    BY <1>17 DEF AtDrop
  <2>3. ReqOK' /\ sess' \in [Sessions -> SessionInfo]
    BY <1>3, <2>1, <2>2, MintType
  <2> QED BY <1>1, <2>3, <1>17 DEF AtDrop, TypeInv, TypeOK, ReqOK
<1>18. CASE AuthTok(r)
  <2>1. Fits([req[r] EXCEPT !.pc = "auth_cache"]) /\ "auth_cache" \in Labels
    BY <1>2, <1>18 DEF AuthTok, RequestState, Labels, Fits, LoginOps, WriteOps, AtPcs,
       RtPcs, WritePcs
  <2>2. ReqOK' BY <2>1, <1>18, GotoType, FinishType DEF AuthTok
  <2> QED BY <1>1, <2>2, <1>18 DEF AuthTok, TypeInv, TypeOK, ReqOK
<1>19. CASE AuthCache(r)
  <2>1. Fits([req[r] EXCEPT !.pc = "auth_db"]) /\ "auth_db" \in Labels
    BY <1>2, <1>19 DEF AuthCache, RequestState, Labels, Fits, LoginOps, WriteOps,
       AtPcs, RtPcs, WritePcs
  <2>2. ReqOK' BY <2>1, <1>19, GotoType, FinishType DEF AuthCache
  <2> QED BY <1>1, <2>2, <1>19 DEF AuthCache, TypeInv, TypeOK, ReqOK
<1>20. CASE AuthDb(r)
  <2> DEFINE new == [req[r] EXCEPT !.pc = "auth_fill", !.copy = "current"]
  <2>1. new \in RequestState /\ Fits(new)
    BY <1>2, <1>20 DEF AuthDb, RequestState, Labels, Freshness, Fits, LoginOps,
       WriteOps, AtPcs, RtPcs, WritePcs
  <2>2. ReqOK' BY <2>1, <1>20, AssignType, FinishType DEF AuthDb
  <2> QED BY <1>1, <2>2, <1>20 DEF AuthDb, TypeInv, TypeOK, ReqOK
<1>21. CASE AuthFill(r)
  <2>1. ReqOK' BY <1>21, FinishType DEF AuthFill
  <2> QED BY <1>1, <1>3, <2>1, <1>21 DEF AuthFill, TypeInv, TypeOK, ReqOK
<1>22. CASE OutTok(r)
  <2>1. Fits([req[r] EXCEPT !.pc = "out_ref"]) /\ "out_ref" \in Labels
    BY <1>2, <1>22 DEF OutTok, RequestState, Labels, Fits, LoginOps, WriteOps, AtPcs,
       RtPcs, WritePcs
  <2>2. ReqOK' BY <2>1, <1>22, GotoType, FinishType DEF OutTok
  <2> QED BY <1>1, <2>2, <1>22 DEF OutTok, TypeInv, TypeOK, ReqOK
<1>23. CASE OutRef(r)
  <2>1. ReqOK' BY <1>23, FinishType DEF OutRef
  <2> QED BY <1>1, <1>3, <2>1, <1>23 DEF OutRef, TypeInv, TypeOK, ReqOK
<1>24. CASE WriteUpdate(r)
  <2> DEFINE label == IF EndsSessions(req[r].op, req[r].val)
                      THEN "w_scan_tok" ELSE "w_uncache"
  <2>1. label \in {"w_scan_tok", "w_uncache"} OBVIOUS
  <2>2. Fits([req[r] EXCEPT !.pc = label]) /\ label \in Labels
    <3> HIDE DEF label
    <3> QED BY <1>2, <2>1, <1>24 DEF WriteUpdate, RequestState, Labels, Fits,
               LoginOps, WriteOps, AtPcs, RtPcs, WritePcs
  <2>3. ReqOK' BY <2>2, <1>24, GotoType DEF WriteUpdate
  <2>4. lock' \in [Users -> Requests \cup {None}] BY <1>1, <1>24 DEF WriteUpdate
  <2> QED BY <1>1, <2>3, <2>4, <1>24 DEF WriteUpdate, TypeInv, TypeOK, ReqOK
<1>25. CASE WriteScanTok(r)
  <2>1. PICK keys \in SUBSET Sessions : Collect(r, "w_del_tok", keys)
    BY <1>1, <1>25 DEF WriteScanTok
  <2>2. Fits([req[r] EXCEPT !.pc = "w_del_tok", !.scan = keys]) /\ "w_del_tok" \in Labels
    BY <1>2, <1>25 DEF WriteScanTok, RequestState, Labels, Fits, LoginOps, WriteOps,
       AtPcs, RtPcs, WritePcs
  <2>3. ReqOK' BY <2>1, <2>2, CollectType
  <2> QED BY <1>1, <2>3, <1>25 DEF WriteScanTok, TypeInv, TypeOK, ReqOK
<1>26. CASE WriteDelTok(r)
  <2>1. PICK label \in {"w_uncache", "w_scan_ref"} : Collect(r, label, {})
    BY <1>26 DEF WriteDelTok
  <2>2. Fits([req[r] EXCEPT !.pc = label, !.scan = {}]) /\ label \in Labels
    BY <1>2, <1>26 DEF WriteDelTok, RequestState, Labels, Fits, LoginOps, WriteOps,
       AtPcs, RtPcs, WritePcs
  <2>3. ReqOK' BY <2>1, <2>2, CollectType
  <2> QED BY <1>1, <2>3, <1>26 DEF WriteDelTok, TypeInv, TypeOK, ReqOK
<1>27. CASE WriteScanRef(r)
  <2>1. Fits([req[r] EXCEPT !.pc = "w_del_ref", !.scan = ref \cap Covered(req[r].user)])
    BY <1>2, <1>27 DEF WriteScanRef, RequestState, Fits, LoginOps, WriteOps, AtPcs,
       RtPcs, WritePcs
  <2>2. "w_del_ref" \in Labels BY DEF Labels
  <2>3. ReqOK' BY <1>1, <2>1, <2>2, <1>27, CollectType DEF WriteScanRef
  <2> QED BY <1>1, <2>3, <1>27 DEF WriteScanRef, TypeInv, TypeOK, ReqOK
<1>28. CASE WriteDelRef(r)
  <2>1. PICK label \in {"commit", "w_uncache"} : Collect(r, label, {})
    BY <1>28 DEF WriteDelRef
  <2>2. Fits([req[r] EXCEPT !.pc = label, !.scan = {}]) /\ label \in Labels
    BY <1>2, <1>28 DEF WriteDelRef, RequestState, Labels, Fits, LoginOps, WriteOps,
       AtPcs, RtPcs, WritePcs
  <2>3. ReqOK' BY <2>1, <2>2, CollectType
  <2> QED BY <1>1, <2>3, <1>28 DEF WriteDelRef, TypeInv, TypeOK, ReqOK
<1>29. CASE WriteUncache(r)
  <2>1. Fits([req[r] EXCEPT !.pc = "commit"]) /\ "commit" \in Labels
    BY <1>2, <1>29 DEF WriteUncache, RequestState, Labels, Fits, LoginOps, WriteOps,
       AtPcs, RtPcs, WritePcs
  <2>2. ReqOK' BY <2>1, <1>29, GotoType DEF WriteUncache
  <2> QED BY <1>1, <2>2, <1>29 DEF WriteUncache, TypeInv, TypeOK, ReqOK, Freshness
<1>30. CASE Commit(r)
  <2> DEFINE u == req[r].user
             age(copy) == IF copy = "current" THEN "stale" ELSE copy
  <2>1. u \in Users BY <1>2, <1>30 DEF Commit, Fits
  <2>2. lock' \in [Users -> Requests \cup {None}] BY <1>1, <1>30 DEF Commit, Unlock
  <2>3. CASE lock[u] = r
    <3>1. req' = [q \in Requests |-> IF q = r THEN Idle
                    ELSE IF req[q].user = u THEN [req[q] EXCEPT !.copy = age(@)]
                    ELSE req[q]]
      BY <2>3, <1>30 DEF Commit
    <3>2. ASSUME NEW q \in Requests PROVE req'[q] \in RequestState /\ Fits(req'[q])
      <4>1. req[q] \in RequestState /\ Fits(req[q]) /\ age(req[q].copy) \in Freshness
        BY DEF TypeInv, TypeOK, PcMatchesOp, RequestState, Freshness
      <4>2. /\ [req[q] EXCEPT !.copy = age(@)] \in RequestState
            /\ Fits([req[q] EXCEPT !.copy = age(@)])
        <5> HIDE DEF age
        <5> QED BY <4>1 DEF RequestState, Fits
      <4> HIDE DEF age
      <4> QED BY <3>1, <4>1, <4>2, IdleType
    <3>3. ReqOK' BY <3>1, <3>2 DEF ReqOK, PcMatchesOp
    <3>4. row' \in [Users -> Rows]
      <4>1. req[r].val \in BOOLEAN BY <1>2 DEF RequestState
      <4>2. row' = [row EXCEPT ![u] = NewRow(row[u], req[r].op, req[r].val)]
        BY <2>3, <1>30 DEF Commit
      <4>3. NewRow(row[u], req[r].op, req[r].val) \in Rows
        BY <1>1, <2>1, <4>1 DEF NewRow, Rows
      <4> QED BY <1>1, <4>2, <4>3
    <3>5. cache' \in [Users -> Freshness]
      <4>1. cache' = [cache EXCEPT ![u] = age(cache[u])] BY <2>3, <1>30 DEF Commit
      <4> QED BY <1>1, <2>1, <4>1 DEF Freshness
    <3>6. outdated' \subseteq Sessions BY <1>1, <2>3, <1>30 DEF Commit, Of
    <3> QED BY <1>1, <2>2, <3>3, <3>4, <3>5, <3>6, <1>30 DEF Commit, TypeInv, TypeOK,
               ReqOK
  <2>4. CASE lock[u] # r
    <3>1. ReqOK' BY <2>4, <1>30, FinishType DEF Commit
    <3> QED BY <1>1, <2>2, <2>4, <3>1, <1>30 DEF Commit, TypeInv, TypeOK, ReqOK
  <2> QED BY <2>3, <2>4
<1> QED BY <1>4, <1>5, <1>6, <1>7, <1>8, <1>9, <1>10, <1>11, <1>12, <1>13,
           <1>14, <1>15, <1>16, <1>17, <1>18, <1>19, <1>20, <1>21, <1>22,
           <1>23, <1>24, <1>25, <1>26, <1>27, <1>28, <1>29, <1>30 DEF Step

LEMMA AbortTypeInv ==
  ASSUME TypeInv, NEW r \in Requests, Abort(r) PROVE TypeInv'
<1>1. ReqOK' BY FinishType DEF Abort
<1>2. lock' \in [Users -> Requests \cup {None}] BY DEF TypeInv, TypeOK, Abort, Unlock
<1> QED BY <1>1, <1>2 DEF Abort, TypeInv, TypeOK, ReqOK

LEMMA EnvironmentTypeInv == ASSUME TypeInv, Environment PROVE TypeInv'
<1>1. UNCHANGED req
  BY DEF Environment, Revoke, ExpireToken, ExpireRefresh, ExpireCache
<1>2. PcMatchesOp' BY <1>1 DEF TypeInv, PcMatchesOp
<1>3. TypeOK'
  BY DEF Environment, Revoke, ExpireToken, ExpireRefresh, ExpireCache, TypeInv,
     TypeOK, Freshness
<1> QED BY <1>2, <1>3 DEF TypeInv

LEMMA InitTypeInv == Init => TypeInv
<1> SUFFICES ASSUME Init PROVE TypeInv OBVIOUS
<1>1. TypeOK
  <2>1. sess \in [Sessions -> SessionInfo] BY DEF Init, SessionInfo
  <2>2. row \in [Users -> Rows] BY DEF Init, Rows
  <2> QED BY <2>1, <2>2, IdleType DEF Init, TypeOK, Freshness
<1>2. PcMatchesOp BY IdleType DEF Init, PcMatchesOp
<1> QED BY <1>1, <1>2 DEF TypeInv

LEMMA NextTypeInv == TypeInv /\ [Next]_vars => TypeInv'
<1> SUFFICES ASSUME TypeInv, [Next]_vars PROVE TypeInv' OBVIOUS
<1>1. CASE UNCHANGED vars BY <1>1 DEF vars, TypeInv, TypeOK, PcMatchesOp
<1>2. CASE Next
  BY <1>2, StartTypeInv, StepTypeInv, AbortTypeInv, EnvironmentTypeInv DEF Next
<1> QED BY <1>1, <1>2

\* The variables keep their types in every behaviour.
THEOREM TypeCorrect == Spec => []TypeOK
<1>1. Spec => []TypeInv BY InitTypeInv, NextTypeInv, PTL DEF Spec
<1>2. TypeInv => TypeOK BY DEF TypeInv
<1> QED BY <1>1, <1>2, PTL

-----------------------------------------------------------------------------
(* What a step does to req, stated without EXCEPT.                         *)

Others(r) == \A q \in Requests \ {r} : req'[q] = req[q]
SameJob(r) ==
  req'[r].op = req[r].op /\ req'[r].user = req[r].user /\ req'[r].sess = req[r].sess

LEMMA GotoMoves ==
  ASSUME TypeInv, NEW r \in Requests, NEW label, Goto(r, label)
  PROVE  Others(r) /\ SameJob(r) /\ req'[r].pc = label /\ req'[r].scan = req[r].scan
BY DEF TypeInv, TypeOK, RequestState, Goto, Others, SameJob

LEMMA FinishMoves ==
  ASSUME TypeInv, NEW r \in Requests, Finish(r)
  PROVE  Others(r) /\ req'[r].pc = "idle"
BY DEF TypeInv, TypeOK, Finish, Others, Idle

LEMMA CollectMoves ==
  ASSUME TypeInv, NEW r \in Requests, NEW label, NEW keys, Collect(r, label, keys)
  PROVE  Others(r) /\ SameJob(r) /\ req'[r].pc = label /\ req'[r].scan = keys
<1>1. req \in [Requests -> RequestState] BY DEF TypeInv, TypeOK
<1>2. req'[r] = [req[r] EXCEPT !.pc = label, !.scan = keys] /\ Others(r)
  BY <1>1 DEF Collect, Others
<1> QED BY <1>1, <1>2 DEF RequestState, SameJob

LEMMA MintMoves ==
  ASSUME TypeInv, NEW r \in Requests, NEW s, NEW via, NEW old, NEW multi,
         Mint(r, s, via, old, multi)
  PROVE  /\ Others(r) /\ req'[r].pc \in AtPcs /\ req'[r].sess = s
         /\ req'[r].op = req[r].op /\ req'[r].user = req[r].user
<1> DEFINE label == IF multi THEN "at_uncache" ELSE "at_scan"
<1>1. req \in [Requests -> RequestState] BY DEF TypeInv, TypeOK
<1>2. req'[r] = [req[r] EXCEPT !.pc = label, !.sess = s, !.multi = multi] /\ Others(r)
  BY <1>1 DEF Mint, Others
<1>3. label \in AtPcs BY DEF AtPcs
<1> HIDE DEF label
<1> QED BY <1>1, <1>2, <1>3 DEF RequestState

-----------------------------------------------------------------------------
(* Steps that write no key of a session, take no lock and change no row.   *)

LatePcs == AtPcs \cup RtPcs \cup (WritePcs \ {"w_update"})

\* q goes on creating the session it was creating, or does no such thing.
Undisturbed(q) ==
  \/ req'[q] = req[q]
  \/ req'[q].pc \notin LatePcs
  \/ /\ SameJob(q) /\ req[q].op \notin WriteOps
     /\ \/ req[q].pc \in AtPcs /\ req'[q].pc \in AtPcs
        \/ req[q].pc \in RtPcs /\ req'[q].pc \in RtPcs

LEMMA QuietStep ==
  ASSUME TypeInv, PasswordInv, TypeInv',
         UNCHANGED <<row, sess, outdated>>, tok' \subseteq tok, ref' \subseteq ref,
         \A u \in Users : \/ lock'[u] = lock[u]
                          \/ lock'[u] = None /\ req'[lock[u]].pc \notin LatePcs,
         \A q \in Requests : Undisturbed(q)
  PROVE  PasswordInv'
<1>1. \A q \in Requests : /\ Fits(req[q]) /\ Fits(req'[q])
                          /\ Undisturbed(q)
  BY DEF TypeInv, PcMatchesOp
<1>2. Issued' = Issued BY DEF Issued
<1>3. ASSUME NEW q \in Requests, Creating(q)'
      PROVE  /\ Creating(q) /\ req'[q].pc \in LatePcs /\ SameJob(q)
             /\ req'[q].user \in Users /\ req'[q].sess \in Sessions
             /\ req'[q].pc \in AtPcs => req[q].pc \in AtPcs
             /\ req'[q].pc \in RtPcs => req[q].pc \in RtPcs
  BY <1>1, <1>3 DEF Creating, LatePcs, Undisturbed, SameJob, Fits, AtPcs, RtPcs,
     WritePcs, WriteOps
<1>4. PcMatchesOp' BY DEF TypeInv
<1>5. OwnsItsSession' BY <1>1, <1>2, <1>3 DEF PasswordInv, OwnsItsSession, SameJob
<1>6. KeysAreIssued' BY <1>2 DEF PasswordInv, KeysAreIssued
<1>7. LockedRowIsLive' BY DEF PasswordInv, LockedRowIsLive
<1>8. LoginHoldsLock' BY <1>3 DEF PasswordInv, LoginHoldsLock, SameJob
<1>9. NewSessionNotOutdated'
  BY <1>3 DEF PasswordInv, NewSessionNotOutdated, SameJob
<1>10. ASSUME NEW q \in Requests, Ending(q)', req'[q].pc \in LatePcs
       PROVE  req'[q] = req[q] /\ Ending(q)
  <2>1. req'[q].user \in Users BY <1>1, <1>10 DEF LatePcs, AtPcs, RtPcs, WritePcs, Fits
  <2>2. req'[q] = req[q]
    BY <1>1, <1>10 DEF Undisturbed, Ending, SameJob, WriteOps
  <2>3. lock[req[q].user] = q BY <1>10, <2>1, <2>2, SessionsAssumption DEF Ending
  <2> QED BY <1>10, <2>2, <2>3 DEF Ending
<1>11. AccessKeysEnded'
  BY <1>1, <1>10 DEF PasswordInv, AccessKeysEnded, LoginKeys, Of, LatePcs, WritePcs, RtPcs
<1>12. RefreshKeysEnded'
  BY <1>1, <1>10 DEF PasswordInv, RefreshKeysEnded, LoginKeys, Of, LatePcs, WritePcs, RtPcs
<1>13. PasswordChangeEndsLogins' BY DEF PasswordInv, PasswordChangeEndsLogins
<1> QED BY <1>4, <1>5, <1>6, <1>7, <1>8, <1>9, <1>11, <1>12, <1>13 DEF PasswordInv

-----------------------------------------------------------------------------
(* Steps that mint a uuid.                                                 *)

LEMMA MintStep ==
  ASSUME TypeInv, PasswordInv, TypeInv', NEW r \in Requests, NEW s \in Sessions,
         NEW old, NEW multi, Mint(r, s, req[r].op, old, multi),
         req[r].op \in LoginOps \cup {"refresh"}, req[r].pc \notin LatePcs,
         req[r].user \in Users,
         UNCHANGED <<row, ref, outdated>>, tok' \subseteq tok,
         \/ lock' = lock /\ (req[r].op = "refresh" \/ ~row[req[r].user].live)
         \/ /\ row[req[r].user].live /\ lock[req[r].user] = None
            /\ lock' = [lock EXCEPT ![req[r].user] = r]
  PROVE  PasswordInv'
<1> DEFINE u == req[r].user
<1>1. /\ Others(r) /\ req'[r].pc \in AtPcs /\ req'[r].sess = s
      /\ req'[r].op = req[r].op /\ req'[r].user = u
  BY MintMoves
<1>2. /\ sess[s].stage = "free" /\ sess'[s].stage = "minted"
      /\ sess'[s].user = u /\ sess'[s].via = req[r].op
      /\ \A t \in Sessions \ {s} : sess'[t] = sess[t]
  BY DEF Mint, TypeInv, TypeOK
<1>3. Issued' = Issued /\ s \notin Issued /\ Issued \subseteq Sessions BY <1>2 DEF Issued
<1>4. \A q \in Requests : Fits(req[q]) /\ Fits(req'[q]) BY DEF TypeInv, PcMatchesOp
<1>5. \A q \in Requests : Creating(q) => req[q].sess # s /\ req[q].sess \in Sessions
  BY <1>2, <1>3 DEF PasswordInv, OwnsItsSession, Creating
<1>6. \A q \in Requests \ {r} : Creating(q)' <=> Creating(q)
  BY <1>1 DEF Others, Creating
<1>7. lock \in [Users -> Requests \cup {None}] BY DEF TypeInv, TypeOK
<1>8. ~Creating(r) /\ Creating(r)' BY <1>1 DEF Creating, LatePcs, LoginOps, WriteOps
<1>9. PcMatchesOp' BY DEF TypeInv
<1>10. OwnsItsSession'
  <2>1. ASSUME NEW q \in Requests, Creating(q)'
        PROVE  /\ req'[q].sess \in Sessions
               /\ sess'[req'[q].sess].user = req'[q].user
               /\ sess'[req'[q].sess].via = req'[q].op
               /\ req'[q].pc \in AtPcs => sess'[req'[q].sess].stage = "minted"
               /\ req'[q].pc \in RtPcs => req'[q].sess \in Issued
    <3>1. CASE q = r BY <1>1, <1>2, <3>1 DEF AtPcs, RtPcs
    <3>2. CASE q # r
      BY <1>1, <1>2, <1>5, <1>6, <2>1, <3>2 DEF Others, PasswordInv, OwnsItsSession
    <3> QED BY <3>1, <3>2
  <2>2. ASSUME NEW q \in Requests, NEW p \in Requests \ {q}, Creating(q)', Creating(p)'
        PROVE  req'[p].sess # req'[q].sess
    BY <1>1, <1>5, <1>6, <2>2 DEF Others, PasswordInv, OwnsItsSession
  <2> QED BY <1>3, <2>1, <2>2 DEF OwnsItsSession
<1>11. KeysAreIssued' BY <1>3 DEF PasswordInv, KeysAreIssued
<1>12. LockedRowIsLive' BY <1>7 DEF PasswordInv, LockedRowIsLive
<1>13. LoginHoldsLock'
  <2>1. ASSUME NEW q \in Requests, q # r, Creating(q)', req'[q].op \in LoginOps
        PROVE  lock'[req'[q].user] = q \/ ~row'[req'[q].user].live
    <3>1. lock[req[q].user] = q \/ ~row[req[q].user].live
      BY <1>1, <1>6, <2>1 DEF Others, PasswordInv, LoginHoldsLock
    <3>2. req'[q] = req[q] BY <1>1, <2>1 DEF Others
    <3>3. req[q].user \in Users BY <1>4, <1>6, <2>1 DEF Creating, AtPcs, RtPcs, Fits
    <3>4. q # None BY SessionsAssumption
    <3> QED BY <1>7, <3>1, <3>2, <3>3, <3>4
  <2>2. req'[r].op \in LoginOps => lock'[u] = r \/ ~row'[u].live
    BY <1>1, <1>7 DEF LoginOps
  <2> QED BY <1>1, <2>1, <2>2 DEF LoginHoldsLock
<1>14. ASSUME NEW q \in Requests, Ending(q)' , req'[q].pc \in LatePcs
       PROVE  req'[q] = req[q] /\ Ending(q)
  <2>1. q # r BY <1>1, <1>14 DEF Ending, LoginOps
  <2>2. req'[q] = req[q] BY <1>1, <2>1 DEF Others
  <2>3. req[q].user \in Users
    BY <1>4, <1>14, <2>2 DEF LatePcs, AtPcs, RtPcs, WritePcs, Fits
  <2> QED BY <1>7, <1>14, <2>1, <2>2, <2>3 DEF Ending
<1>16. AccessKeysEnded'
  <2>1. tok \subseteq Issued BY DEF PasswordInv, KeysAreIssued
  <2> QED BY <1>2, <1>3, <1>14, <2>1 DEF PasswordInv, AccessKeysEnded, LoginKeys, Of, LatePcs,
          WritePcs, RtPcs
<1>17. RefreshKeysEnded'
  <2>1. ref \subseteq Issued BY DEF PasswordInv, KeysAreIssued
  <2> QED BY <1>2, <1>3, <1>14, <2>1 DEF PasswordInv, RefreshKeysEnded, LoginKeys, Of, LatePcs,
          WritePcs, RtPcs
<1>18. NewSessionNotOutdated'
  <2>1. s \notin outdated BY <1>3 DEF PasswordInv, KeysAreIssued
  <2> QED BY <1>1, <1>6, <2>1 DEF Others, PasswordInv, NewSessionNotOutdated
<1>19. PasswordChangeEndsLogins'
  <2>1. s \notin outdated BY <1>3 DEF PasswordInv, KeysAreIssued
  <2>2. outdated \subseteq Sessions BY DEF TypeInv, TypeOK
  <2> QED BY <1>2, <2>1, <2>2 DEF PasswordInv, PasswordChangeEndsLogins
<1> QED BY <1>9, <1>10, <1>11, <1>12, <1>13, <1>16, <1>17, <1>18, <1>19 DEF PasswordInv

-----------------------------------------------------------------------------
(* Steps of a handler that writes the row, up to its commit.               *)

AccessEnded(r) ==
  Ending(r) =>
    /\ req[r].pc = "w_del_tok" => LoginKeys(tok, r) \subseteq req[r].scan
    /\ req[r].pc \in {"w_scan_ref", "w_del_ref", "w_uncache", "commit"}
         => LoginKeys(tok, r) = {}
RefreshEnded(r) ==
  Ending(r) =>
    /\ req[r].pc = "w_del_ref" => LoginKeys(ref, r) \subseteq req[r].scan
    /\ req[r].pc \in {"w_uncache", "commit"} => LoginKeys(ref, r) = {}

LEMMA WriterStep ==
  ASSUME TypeInv, PasswordInv, TypeInv', NEW r \in Requests,
         Others(r), SameJob(r), req[r].op \in WriteOps, req[r].user \in Users,
         UNCHANGED <<row, sess, outdated>>, tok' \subseteq tok, ref' \subseteq ref,
         \/ lock' = lock
         \/ /\ row[req[r].user].live /\ lock[req[r].user] = None
            /\ lock' = [lock EXCEPT ![req[r].user] = r],
         AccessEnded(r)', RefreshEnded(r)'
  PROVE  PasswordInv'
<1>1. \A q \in Requests : Fits(req[q]) /\ Fits(req'[q]) BY DEF TypeInv, PcMatchesOp
<1>2. Issued' = Issued BY DEF Issued
<1>3. lock \in [Users -> Requests \cup {None}] BY DEF TypeInv, TypeOK
<1>4. ~Creating(r) /\ ~Creating(r)' BY DEF Creating, SameJob
<1>5. \A q \in Requests \ {r} : req'[q] = req[q] /\ (Creating(q)' <=> Creating(q))
  BY DEF Others, Creating
<1>6. PcMatchesOp' BY DEF TypeInv
<1>7. OwnsItsSession' BY <1>2, <1>4, <1>5 DEF PasswordInv, OwnsItsSession
<1>8. KeysAreIssued' BY <1>2 DEF PasswordInv, KeysAreIssued
<1>9. LockedRowIsLive' BY <1>3 DEF PasswordInv, LockedRowIsLive
<1>10. LoginHoldsLock'
  <2>1. ASSUME NEW q \in Requests, q # r, Creating(q)', req'[q].op \in LoginOps
        PROVE  lock'[req'[q].user] = q \/ ~row'[req'[q].user].live
    <3>1. lock[req[q].user] = q \/ ~row[req[q].user].live
      BY <1>5, <2>1 DEF PasswordInv, LoginHoldsLock
    <3>2. req[q].user \in Users BY <1>1, <1>5, <2>1 DEF Creating, AtPcs, RtPcs, Fits
    <3>3. q # None BY SessionsAssumption
    <3> QED BY <1>3, <1>5, <2>1, <3>1, <3>2, <3>3
  <2> QED BY <1>4, <2>1 DEF LoginHoldsLock
<1>11. NewSessionNotOutdated'
  BY <1>4, <1>5 DEF PasswordInv, NewSessionNotOutdated
<1>12. ASSUME NEW q \in Requests \ {r}, Ending(q)', req[q].user \in Users PROVE Ending(q)
  BY <1>3, <1>5, <1>12 DEF Ending
<1>13. AccessKeysEnded'
  <2>1. ASSUME NEW q \in Requests \ {r} PROVE AccessEnded(q)'
    <3>1. AccessEnded(q) BY DEF PasswordInv, AccessKeysEnded, AccessEnded
    <3>2. req[q].pc = "idle" \/ req[q].user \in Users BY <1>1 DEF Fits
    <3> QED BY <1>5, <1>12, <3>1, <3>2 DEF AccessEnded, LoginKeys, Of
  <2> QED BY <2>1 DEF AccessKeysEnded, AccessEnded
<1>14. RefreshKeysEnded'
  <2>1. ASSUME NEW q \in Requests \ {r} PROVE RefreshEnded(q)'
    <3>1. RefreshEnded(q) BY DEF PasswordInv, RefreshKeysEnded, RefreshEnded
    <3>2. req[q].pc = "idle" \/ req[q].user \in Users BY <1>1 DEF Fits
    <3> QED BY <1>5, <1>12, <3>1, <3>2 DEF RefreshEnded, LoginKeys, Of
  <2> QED BY <2>1 DEF RefreshKeysEnded, RefreshEnded
<1>15. PasswordChangeEndsLogins' BY DEF PasswordInv, PasswordChangeEndsLogins
<1> QED BY <1>6, <1>7, <1>8, <1>9, <1>10, <1>11, <1>13, <1>14, <1>15 DEF PasswordInv

\* A user's own keys match the user's prefix.
LEMMA OwnKeysCovered ==
  ASSUME TypeInv, NEW r \in Requests, req[r].user \in Users, NEW keys
  PROVE  LoginKeys(keys, r) \subseteq keys \cap Covered(req[r].user)
BY SessionsAssumption DEF LoginKeys, Of, Covered

LEMMA WriteStepInv ==
  ASSUME TypeInv, PasswordInv, TypeInv', NEW r \in Requests,
         \/ WriteUpdate(r) \/ WriteScanTok(r) \/ WriteDelTok(r)
         \/ WriteScanRef(r) \/ WriteDelRef(r) \/ WriteUncache(r)
  PROVE  PasswordInv'
<1>1. Fits(req[r]) BY DEF TypeInv, PcMatchesOp
<1>2. req[r].op \in WriteOps /\ req[r].user \in Users
  BY <1>1 DEF WriteUpdate, WriteScanTok, WriteDelTok, WriteScanRef, WriteDelRef,
     WriteUncache, Fits, WritePcs
<1>3. AccessEnded(r) /\ RefreshEnded(r)
  BY DEF PasswordInv, AccessKeysEnded, RefreshKeysEnded, AccessEnded, RefreshEnded
<1>4. CASE WriteUpdate(r)
  <2>1. PICK label : Goto(r, label) /\ (req[r].op \in {"password", "delete"}
                                          => label = "w_scan_tok")
    BY <1>4 DEF WriteUpdate, EndsSessions
  <2>2. Others(r) /\ SameJob(r) /\ req'[r].pc = label BY <2>1, GotoMoves
  <2>3. AccessEnded(r)' /\ RefreshEnded(r)'
    BY <2>1, <2>2 DEF AccessEnded, RefreshEnded, Ending, SameJob
  <2> QED BY <1>2, <1>4, <2>2, <2>3, WriterStep DEF WriteUpdate
<1>5. CASE WriteScanTok(r)
  <2>1. PICK keys : /\ Collect(r, "w_del_tok", keys)
                    /\ req[r].op \in {"password", "delete"}
                         => keys = tok \cap Covered(req[r].user)
    BY <1>5 DEF WriteScanTok
  <2>2. Others(r) /\ SameJob(r) /\ req'[r].pc = "w_del_tok" /\ req'[r].scan = keys
    BY <2>1, CollectMoves
  <2>3. LoginKeys(tok, r)' = LoginKeys(tok, r)
    BY <1>5, <2>2 DEF WriteScanTok, LoginKeys, Of, SameJob
  <2>4. AccessEnded(r)' /\ RefreshEnded(r)'
    BY <1>2, <2>1, <2>2, <2>3, OwnKeysCovered DEF AccessEnded, RefreshEnded, Ending, SameJob
  <2> QED BY <1>2, <1>5, <2>2, <2>4, WriterStep DEF WriteScanTok
<1>6. CASE WriteDelTok(r)
  <2>1. PICK label : /\ Collect(r, label, {})
                     /\ label = IF req[r].op = "multi" THEN "w_uncache" ELSE "w_scan_ref"
    BY <1>6 DEF WriteDelTok
  <2>2. Others(r) /\ SameJob(r) /\ req'[r].pc = label
    BY <2>1, CollectMoves
  <2>3. tok' \subseteq tok \ req[r].scan BY <1>6 DEF WriteDelTok
  <2>4. Ending(r)' => Ending(r) /\ LoginKeys(tok, r)' = {}
    BY <1>3, <1>6, <2>2, <2>3 DEF WriteDelTok, AccessEnded, Ending, LoginKeys, Of, SameJob
  <2>5. AccessEnded(r)' /\ RefreshEnded(r)'
    BY <2>1, <2>2, <2>4 DEF AccessEnded, RefreshEnded, Ending
  <2> QED BY <1>2, <1>6, <2>2, <2>3, <2>5, WriterStep DEF WriteDelTok
<1>7. CASE WriteScanRef(r)
  <2>1. Collect(r, "w_del_ref", ref \cap Covered(req[r].user)) BY <1>7 DEF WriteScanRef
  <2>2. /\ Others(r) /\ SameJob(r) /\ req'[r].pc = "w_del_ref"
        /\ req'[r].scan = ref \cap Covered(req[r].user)
    BY <2>1, CollectMoves
  <2>3. /\ LoginKeys(tok, r)' = LoginKeys(tok, r) /\ LoginKeys(ref, r)' = LoginKeys(ref, r)
        /\ Ending(r)' => Ending(r)
    BY <1>7, <2>2 DEF WriteScanRef, LoginKeys, Of, SameJob, Ending
  <2>4. AccessEnded(r)' /\ RefreshEnded(r)'
    BY <1>2, <1>3, <1>7, <2>2, <2>3, OwnKeysCovered
       DEF WriteScanRef, AccessEnded, RefreshEnded
  <2> QED BY <1>2, <1>7, <2>2, <2>4, WriterStep DEF WriteScanRef
<1>8. CASE WriteDelRef(r)
  <2>1. PICK label \in {"commit", "w_uncache"} : Collect(r, label, {})
    BY <1>8 DEF WriteDelRef
  <2>2. Others(r) /\ SameJob(r) /\ req'[r].pc = label BY <2>1, CollectMoves
  <2>3. ref' \subseteq ref \ req[r].scan BY <1>8 DEF WriteDelRef
  <2>4. Ending(r)' => /\ Ending(r) /\ LoginKeys(ref, r)' = {}
                      /\ LoginKeys(tok, r)' = LoginKeys(tok, r)
    BY <1>3, <1>8, <2>2, <2>3 DEF WriteDelRef, RefreshEnded, Ending, LoginKeys, Of, SameJob
  <2>5. AccessEnded(r)' /\ RefreshEnded(r)'
    BY <1>3, <1>8, <2>1, <2>2, <2>4 DEF WriteDelRef, AccessEnded, RefreshEnded
  <2> QED BY <1>2, <1>8, <2>2, <2>3, <2>5, WriterStep DEF WriteDelRef
<1>9. CASE WriteUncache(r)
  <2>1. Others(r) /\ SameJob(r) /\ req'[r].pc = "commit"
    BY <1>9, GotoMoves DEF WriteUncache
  <2>2. /\ LoginKeys(tok, r)' = LoginKeys(tok, r) /\ LoginKeys(ref, r)' = LoginKeys(ref, r)
        /\ Ending(r)' => Ending(r)
    BY <1>9, <2>1 DEF WriteUncache, LoginKeys, Of, SameJob, Ending
  <2>3. AccessEnded(r)' /\ RefreshEnded(r)'
    BY <1>3, <1>9, <2>1, <2>2 DEF WriteUncache, AccessEnded, RefreshEnded
  <2> QED BY <1>2, <1>9, <2>1, <2>3, WriterStep DEF WriteUncache
<1> QED BY <1>4, <1>5, <1>6, <1>7, <1>8, <1>9

-----------------------------------------------------------------------------
(* The steps that write a key.                                             *)

LEMMA SetStep ==
  ASSUME TypeInv, PasswordInv, TypeInv', NEW r \in Requests,
         Creating(r), Others(r), SameJob(r), req[r].pc \in {"at_set", "rt_set"},
         req'[r].pc \in RtPcs, UNCHANGED <<row, lock, outdated>>,
         LET s == req[r].sess IN
           /\ \A t \in Sessions \ {s} : sess'[t] = sess[t]
           /\ sess'[s].user = sess[s].user /\ sess'[s].via = sess[s].via
           /\ sess'[s].stage \in {"issued", "granted"}
           /\ tok' \subseteq tok \cup {s} /\ ref' \subseteq ref \cup {s}
  PROVE  PasswordInv'
<1> DEFINE s == req[r].sess
           u == req[r].user
<1>1. /\ s \in Sessions /\ sess[s].user = u /\ sess[s].via = req[r].op /\ u \in Users
      /\ req[r].op \in LoginOps \cup {"refresh"}
      /\ \A q \in Requests \ {r} : Creating(q) => req[q].sess # s
  BY DEF PasswordInv, OwnsItsSession, TypeInv, PcMatchesOp, Fits, AtPcs, RtPcs
<1>2. \A q \in Requests : Fits(req[q]) /\ Fits(req'[q]) BY DEF TypeInv, PcMatchesOp
<1>3. Issued' = Issued \cup {s} BY <1>1 DEF Issued
<1>4. \A q \in Requests \ {r} : req'[q] = req[q] /\ (Creating(q)' <=> Creating(q))
  BY DEF Others, Creating
<1>5. \A t \in Sessions : sess'[t].user = sess[t].user /\ sess'[t].via = sess[t].via
  BY <1>1
<1>6. PcMatchesOp' BY DEF TypeInv
<1>7. OwnsItsSession'
  <2>1. ASSUME NEW q \in Requests, Creating(q)'
        PROVE  /\ req'[q].sess \in Sessions
               /\ sess'[req'[q].sess].user = req'[q].user
               /\ sess'[req'[q].sess].via = req'[q].op
               /\ req'[q].pc \in AtPcs => sess'[req'[q].sess].stage = "minted"
               /\ req'[q].pc \in RtPcs => req'[q].sess \in Issued'
    <3>1. CASE q = r BY <1>1, <1>3, <1>5, <3>1 DEF SameJob, AtPcs, RtPcs
    <3>2. CASE q # r
      BY <1>1, <1>3, <1>4, <2>1, <3>2 DEF PasswordInv, OwnsItsSession
    <3> QED BY <3>1, <3>2
  <2>2. ASSUME NEW q \in Requests, NEW p \in Requests \ {q}, Creating(q)', Creating(p)'
        PROVE  req'[p].sess # req'[q].sess
    BY <1>1, <1>4, <2>2 DEF SameJob, PasswordInv, OwnsItsSession
  <2> QED BY <2>1, <2>2 DEF OwnsItsSession
<1>8. KeysAreIssued' BY <1>3 DEF PasswordInv, KeysAreIssued
<1>9. LockedRowIsLive' BY DEF PasswordInv, LockedRowIsLive
<1>10. LoginHoldsLock' BY <1>4 DEF PasswordInv, LoginHoldsLock, SameJob
<1>11. s \in outdated => sess[s].via = "refresh"
  <2>1. req[r].op \in LoginOps => s \notin outdated BY DEF PasswordInv, NewSessionNotOutdated
  <2> QED BY <1>1, <2>1
<1>12. NewSessionNotOutdated'
  BY <1>4 DEF PasswordInv, NewSessionNotOutdated, SameJob
<1>13. ASSUME NEW q \in Requests, Ending(q), req[q].user \in Users
       PROVE  sess[s].user # req[q].user \/ sess[s].via = "refresh"
  <2>1. q # r BY <1>1, <1>13 DEF Ending, LoginOps
  <2>2. lock[req[q].user] = q /\ row[req[q].user].live
    BY <1>13, SessionsAssumption DEF Ending, PasswordInv, LockedRowIsLive
  <2>3. req[r].op \in LoginOps => lock[u] = r \/ ~row[u].live
    BY DEF PasswordInv, LoginHoldsLock
  <2> QED BY <1>1, <2>1, <2>2, <2>3
<1>14. \A q \in Requests : AccessEnded(q) /\ RefreshEnded(q)
  BY DEF PasswordInv, AccessKeysEnded, RefreshKeysEnded, AccessEnded, RefreshEnded
<1>15. tok \subseteq Sessions /\ ref \subseteq Sessions BY DEF TypeInv, TypeOK
<1>16. ASSUME NEW q \in Requests PROVE AccessEnded(q)' /\ RefreshEnded(q)'
  <2>1. CASE q = r BY <1>1, <2>1 DEF AccessEnded, RefreshEnded, Ending, SameJob, LoginOps
  <2>2. CASE q # r /\ req[q].pc = "idle"
    BY <1>4, <2>2 DEF AccessEnded, RefreshEnded
  <2>3. CASE q # r /\ req[q].user \in Users
    <3>1. Ending(q)' => Ending(q) BY <1>4, <2>3 DEF Ending
    <3>2. Ending(q) => /\ LoginKeys(tok, q)' \subseteq LoginKeys(tok, q)
                       /\ LoginKeys(ref, q)' \subseteq LoginKeys(ref, q)
      BY <1>1, <1>4, <1>5, <1>13, <1>15, <2>3 DEF LoginKeys, Of
    <3> QED BY <1>4, <1>14, <2>3, <3>1, <3>2 DEF AccessEnded, RefreshEnded
  <2> QED BY <1>2, <2>1, <2>2, <2>3 DEF Fits
<1>17. AccessKeysEnded' /\ RefreshKeysEnded'
  BY <1>16 DEF AccessKeysEnded, RefreshKeysEnded, AccessEnded, RefreshEnded
<1>18. PasswordChangeEndsLogins'
  BY <1>1, <1>5, <1>11, <1>15 DEF PasswordInv, PasswordChangeEndsLogins
<1> QED BY <1>6, <1>7, <1>8, <1>9, <1>10, <1>12, <1>17, <1>18 DEF PasswordInv

LEMMA SetStepInv ==
  ASSUME TypeInv, PasswordInv, TypeInv', NEW r \in Requests, AtSet(r) \/ RtSet(r)
  PROVE  PasswordInv'
<1>1. Fits(req[r]) BY DEF TypeInv, PcMatchesOp
<1>2. Creating(r) /\ req[r].sess \in Sessions
  BY <1>1 DEF AtSet, RtSet, Creating, Fits, AtPcs, RtPcs, LoginOps, WriteOps
<1>3. sess \in [Sessions -> SessionInfo] BY DEF TypeInv, TypeOK
<1>4. CASE AtSet(r)
  <2>1. PICK label \in RtPcs : Goto(r, label) BY <1>4 DEF AtSet, RtPcs
  <2>2. Others(r) /\ SameJob(r) /\ req'[r].pc = label BY <2>1, GotoMoves
  <2>3. /\ \A t \in Sessions \ {req[r].sess} : sess'[t] = sess[t]
        /\ sess'[req[r].sess].user = sess[req[r].sess].user
        /\ sess'[req[r].sess].via = sess[req[r].sess].via
        /\ sess'[req[r].sess].stage = "issued"
    BY <1>2, <1>3, <1>4 DEF AtSet, SessionInfo
  <2> QED BY <1>2, <1>4, <2>2, <2>3, SetStep DEF AtSet
<1>5. CASE RtSet(r)
  <2>1. Others(r) /\ SameJob(r) /\ req'[r].pc = "respond" BY <1>5, GotoMoves DEF RtSet
  <2>2. /\ \A t \in Sessions \ {req[r].sess} : sess'[t] = sess[t]
        /\ sess'[req[r].sess].user = sess[req[r].sess].user
        /\ sess'[req[r].sess].via = sess[req[r].sess].via
        /\ sess'[req[r].sess].stage = "granted"
    BY <1>2, <1>3, <1>5 DEF RtSet, SessionInfo
  <2> QED BY <1>2, <1>5, <2>1, <2>2, SetStep DEF RtSet, RtPcs
<1> QED BY <1>4, <1>5

-----------------------------------------------------------------------------
(* The commit of the transaction that holds the row lock.                  *)

LEMMA CommitStep ==
  ASSUME TypeInv, PasswordInv, TypeInv', NEW r \in Requests, Commit(r),
         lock[req[r].user] = r
  PROVE  PasswordInv'
<1> DEFINE u == req[r].user
           age(copy) == IF copy = "current" THEN "stale" ELSE copy
<1>1. \A q \in Requests : Fits(req[q]) /\ Fits(req'[q]) BY DEF TypeInv, PcMatchesOp
<1>2. /\ req[r].pc = "commit" /\ u \in Users
      /\ lock' = [v \in Users |-> IF lock[v] = r THEN None ELSE lock[v]]
      /\ lock \in [Users -> Requests \cup {None}] /\ row \in [Users -> Rows]
      /\ UNCHANGED <<tok, ref, sess>>
      /\ r # None
  BY <1>1, SessionsAssumption DEF Commit, Unlock, TypeInv, TypeOK, Fits
<1>3. req'[r].pc = "idle" /\ req'[r].op = "auth" BY DEF Commit, Idle
<1>4. ASSUME NEW q \in Requests, q # r
      PROVE  /\ req'[q].pc = req[q].pc /\ req'[q].op = req[q].op
             /\ req'[q].user = req[q].user /\ req'[q].sess = req[q].sess
             /\ req'[q].scan = req[q].scan
  <2>1. req'[q] = IF req[q].user = u THEN [req[q] EXCEPT !.copy = age(@)] ELSE req[q]
    BY <1>4 DEF Commit
  <2>2. req[q] \in RequestState BY DEF TypeInv, TypeOK
  <2> HIDE DEF age
  <2> QED BY <2>1, <2>2 DEF RequestState
<1>5. /\ \A q \in Requests \ {r} : Creating(q)' <=> Creating(q)
      /\ ~Creating(r)'
  BY <1>3, <1>4 DEF Creating, AtPcs, RtPcs
<1>6. row[u].live BY <1>2 DEF PasswordInv, LockedRowIsLive
<1>7. \A v \in Users : /\ v # u => row'[v] = row[v]
                       /\ ~row[v].live => ~row'[v].live
  BY <1>2, <1>6 DEF Commit
<1>8. PcMatchesOp' BY DEF TypeInv
<1>9. Issued' = Issued BY <1>2 DEF Issued
<1>10. OwnsItsSession' BY <1>2, <1>4, <1>5, <1>9 DEF PasswordInv, OwnsItsSession
<1>11. outdated' = outdated \/
       (outdated' = outdated \cup (Issued \cap Of(u)) /\ req[r].op \in {"password", "delete"})
  BY DEF Commit
<1>12. KeysAreIssued' BY <1>2, <1>9, <1>11 DEF PasswordInv, KeysAreIssued
<1>13. LockedRowIsLive' BY <1>2, <1>7 DEF PasswordInv, LockedRowIsLive
<1>14. LoginHoldsLock'
  <2>1. ASSUME NEW q \in Requests \ {r}, Creating(q), req[q].op \in LoginOps
        PROVE  lock'[req[q].user] = q \/ ~row'[req[q].user].live
    <3>1. lock[req[q].user] = q \/ ~row[req[q].user].live
      BY <2>1 DEF PasswordInv, LoginHoldsLock
    <3>2. req[q].user \in Users BY <1>1, <2>1 DEF Creating, AtPcs, RtPcs, Fits
    <3> QED BY <1>2, <1>7, <3>1, <3>2
  <2> QED BY <1>4, <1>5, <2>1 DEF LoginHoldsLock
<1>15. ASSUME NEW q \in Requests, Ending(q)', req'[q].pc # "idle"
       PROVE  q # r /\ Ending(q)
  <2>1. q # r BY <1>3, <1>15
  <2>2. req[q].user \in Users BY <1>1, <1>4, <1>15, <2>1 DEF Fits
  <2> QED BY <1>2, <1>4, <1>15, <2>1, <2>2, SessionsAssumption DEF Ending
<1>16. AccessKeysEnded'
  BY <1>2, <1>4, <1>15 DEF PasswordInv, AccessKeysEnded, LoginKeys, Of
<1>17. RefreshKeysEnded'
  BY <1>2, <1>4, <1>15 DEF PasswordInv, RefreshKeysEnded, LoginKeys, Of
<1>18. NewSessionNotOutdated'
  <2>1. ASSUME NEW q \in Requests \ {r}, Creating(q), req[q].op \in LoginOps
        PROVE  req[q].sess \notin outdated'
    <3>1. req[q].sess \notin outdated BY <2>1 DEF PasswordInv, NewSessionNotOutdated
    <3>2. lock[req[q].user] = q \/ ~row[req[q].user].live
      BY <2>1 DEF PasswordInv, LoginHoldsLock
    <3>3. req[q].user # u BY <1>2, <1>6, <3>2
    <3>4. req[q].sess \notin Of(u) BY <2>1, <3>3 DEF PasswordInv, OwnsItsSession, Of
    <3> QED BY <1>11, <3>1, <3>4
  <2> QED BY <1>4, <1>5, <2>1 DEF NewSessionNotOutdated
<1>19. PasswordChangeEndsLogins'
  <2>1. req[r].op \in {"password", "delete"} => LoginKeys(tok, r) = {} /\ LoginKeys(ref, r) = {}
    BY <1>2 DEF PasswordInv, AccessKeysEnded, RefreshKeysEnded, Ending
  <2> QED BY <1>2, <1>11, <2>1 DEF PasswordInv, PasswordChangeEndsLogins, LoginKeys
<1> QED BY <1>8, <1>10, <1>12, <1>13, <1>14, <1>16, <1>17, <1>18, <1>19 DEF PasswordInv

-----------------------------------------------------------------------------
(* Every step of Next is one of those.                                     *)

LEMMA StartInv ==
  ASSUME TypeInv, PasswordInv, TypeInv', NEW r \in Requests, Start(r)
  PROVE  PasswordInv'
<1>1. UNCHANGED <<row, lock, tok, ref, sess, outdated>>
  BY DEF Start, LoginStart, RefreshStart, AuthStart, LogoutStart, WriteStart
<1>0. req \in [Requests -> RequestState] BY DEF TypeInv, TypeOK
<1>2. Others(r) /\ req'[r].pc \notin LatePcs
  <2>1. ASSUME NEW u \in Users, NEW op \in {"login", "swagger"}, LoginStart(r, u, op)
        PROVE  Others(r) /\ req'[r].pc \notin LatePcs
    BY <1>0, <2>1 DEF LoginStart, Others, Idle, LatePcs, AtPcs, RtPcs, WritePcs
  <2>2. ASSUME NEW c \in jar, RefreshStart(r, c)
        PROVE  Others(r) /\ req'[r].pc \notin LatePcs
    BY <1>0, <2>2 DEF RefreshStart, Others, Idle, LatePcs, AtPcs, RtPcs, WritePcs
  <2>3. ASSUME NEW s \in held, AuthStart(r, s)
        PROVE  Others(r) /\ req'[r].pc \notin LatePcs
    BY <1>0, <2>3 DEF AuthStart, Others, Idle, LatePcs, AtPcs, RtPcs, WritePcs
  <2>4. ASSUME NEW s \in held, NEW c \in jar \cup {None}, LogoutStart(r, s, c)
        PROVE  Others(r) /\ req'[r].pc \notin LatePcs
    BY <1>0, <2>4 DEF LogoutStart, Others, Idle, LatePcs, AtPcs, RtPcs, WritePcs
  <2>5. ASSUME NEW u \in Users, NEW k \in held, NEW op \in WriteOps, NEW val \in BOOLEAN,
               WriteStart(r, u, k, op, val)
        PROVE  Others(r) /\ req'[r].pc \notin LatePcs
    BY <1>0, <2>5 DEF WriteStart, Others, Idle, LatePcs, AtPcs, RtPcs, WritePcs
  <2> QED BY <2>1, <2>2, <2>3, <2>4, <2>5 DEF Start
<1>3. \A q \in Requests : Undisturbed(q)
  BY <1>2 DEF Others, Undisturbed
<1> QED BY <1>1, <1>3, QuietStep

LEMMA LoginTimeInv ==
  ASSUME TypeInv, PasswordInv, TypeInv', NEW r \in Requests,
         LoginTime(r) \/ LoginTimeDeleted(r) \/ AtDrop(r)
  PROVE  PasswordInv'
<1>1. Fits(req[r]) BY DEF TypeInv, PcMatchesOp
<1>2. req[r].user \in Users /\ req[r].pc \notin LatePcs
  BY <1>1 DEF LoginTime, LoginTimeDeleted, AtDrop, Fits, LatePcs, AtPcs, RtPcs, WritePcs
<1>3. CASE LoginTime(r)
  <2>1. req[r].op \in LoginOps BY <1>1, <1>3 DEF LoginTime, Fits
  <2>2. PICK s, multi : s \in Sessions /\ Mint(r, s, req[r].op, None, multi)
    BY <1>3 DEF LoginTime
  <2> QED BY <1>2, <1>3, <2>1, <2>2, MintStep DEF LoginTime
<1>4. CASE LoginTimeDeleted(r)
  <2>1. req[r].op \in LoginOps BY <1>1, <1>4 DEF LoginTimeDeleted, Fits
  <2>2. CASE Finish(r) /\ UNCHANGED sess
    <3>1. \A q \in Requests : Undisturbed(q)
      BY <2>2, FinishMoves DEF Others, Undisturbed, LatePcs, AtPcs, RtPcs, WritePcs
    <3> QED BY <1>4, <2>2, <3>1, QuietStep DEF LoginTimeDeleted
  <2>3. ASSUME NEW s \in Sessions, Mint(r, s, req[r].op, None, req[r].multi)
        PROVE  PasswordInv'
    BY <1>2, <1>4, <2>1, <2>3, MintStep DEF LoginTimeDeleted
  <2> QED BY <1>4, <2>2, <2>3 DEF LoginTimeDeleted
<1>5. CASE AtDrop(r)
  <2>1. req[r].op = "refresh" BY <1>1, <1>5 DEF AtDrop, Fits
  <2>2. PICK s \in Sessions : Mint(r, s, req[r].op, req[r].old, req[r].multi)
    BY <1>5, <2>1 DEF AtDrop
  <2> QED BY <1>2, <1>5, <2>1, <2>2, MintStep DEF AtDrop
<1> QED BY <1>3, <1>4, <1>5

\* The awaits at which a request only reads, deletes keys or is over.
LEMMA QuietStepInv ==
  ASSUME TypeInv, PasswordInv, TypeInv', NEW r \in Requests,
         \/ AtScan(r) \/ AtDel(r) \/ AtUncache(r) \/ RtScan(r) \/ RtDel(r) \/ Respond(r)
         \/ RemoteCheck(r) \/ RtGet(r) \/ RtDrop(r)
         \/ AuthTok(r) \/ AuthCache(r) \/ AuthDb(r) \/ AuthFill(r)
         \/ OutTok(r) \/ OutRef(r)
  PROVE  PasswordInv'
<1>1. UNCHANGED <<row, lock, sess, outdated>> /\ tok' \subseteq tok /\ ref' \subseteq ref
  BY DEF AtScan, AtDel, AtUncache, RtScan, RtDel, Respond, RemoteCheck, RtGet, RtDrop,
     AuthTok, AuthCache, AuthDb, AuthFill, OutTok, OutRef
<1>2. Fits(req[r]) BY DEF TypeInv, PcMatchesOp
<1>3. Others(r) /\ Undisturbed(r)
  <2>1. CASE Finish(r)
    BY <2>1, FinishMoves DEF Undisturbed, LatePcs, AtPcs, RtPcs, WritePcs
  <2>2. CASE \E label : Goto(r, label) /\ label \notin LatePcs
    BY <2>2, GotoMoves DEF Undisturbed
  <2>3. CASE AtScan(r) \/ AtDel(r) \/ AtUncache(r)
    <3>1. req[r].pc \in AtPcs /\ req[r].op \notin WriteOps
      BY <1>2, <2>3 DEF AtScan, AtDel, AtUncache, Fits, AtPcs, LoginOps, WriteOps
    <3>2. Others(r) /\ SameJob(r) /\ req'[r].pc \in AtPcs
      BY <2>3, GotoMoves, CollectMoves DEF AtScan, AtDel, AtUncache, AtPcs
    <3> QED BY <3>1, <3>2 DEF Undisturbed
  <2>4. CASE RtScan(r) \/ RtDel(r) \/ (Respond(r) /\ ~Finish(r))
    <3>1. req[r].pc \in RtPcs /\ req[r].op \notin WriteOps
      BY <1>2, <2>4 DEF RtScan, RtDel, Respond, Fits, RtPcs, LoginOps, WriteOps
    <3>2. Others(r) /\ SameJob(r) /\ req'[r].pc \in RtPcs
      BY <2>4, GotoMoves, CollectMoves DEF RtScan, RtDel, Respond, RtPcs
    <3> QED BY <3>1, <3>2 DEF Undisturbed
  <2>5. CASE AuthDb(r) /\ ~Finish(r)
    <3>1. /\ req' = [req EXCEPT ![r] = [@ EXCEPT !.pc = "auth_fill", !.copy = "current"]]
          /\ req \in [Requests -> RequestState]
      BY <2>5 DEF AuthDb, TypeInv, TypeOK
    <3>2. Others(r) /\ req'[r].pc = "auth_fill" BY <3>1 DEF Others, RequestState
    <3> QED BY <3>2 DEF Undisturbed, LatePcs, AtPcs, RtPcs, WritePcs
  <2> QED
    BY <2>1, <2>2, <2>3, <2>4, <2>5 DEF RemoteCheck, RtGet, RtDrop, AuthTok, AuthCache,
       AuthFill, OutTok, OutRef, LatePcs, AtPcs, RtPcs, WritePcs
<1>4. \A q \in Requests : Undisturbed(q) BY <1>3 DEF Others, Undisturbed
<1> QED BY <1>1, <1>4, QuietStep

\* A transaction ends without having written the row.
LEMMA ReleaseInv ==
  ASSUME TypeInv, PasswordInv, TypeInv', NEW r \in Requests, Finish(r), Unlock(r),
         UNCHANGED <<row, tok, ref, sess, outdated>>
  PROVE  PasswordInv'
<1>1. Others(r) /\ req'[r].pc \notin LatePcs
  BY FinishMoves DEF LatePcs, AtPcs, RtPcs, WritePcs
<1>2. \A q \in Requests : Undisturbed(q) BY <1>1 DEF Others, Undisturbed
<1>3. \A u \in Users : \/ lock'[u] = lock[u]
                       \/ lock'[u] = None /\ req'[lock[u]].pc \notin LatePcs
  BY <1>1 DEF Unlock
<1> QED BY <1>2, <1>3, QuietStep

LEMMA NextInv == TypeInv /\ PasswordInv /\ TypeInv' /\ [Next]_vars => PasswordInv'
<1> SUFFICES ASSUME TypeInv, PasswordInv, TypeInv', [Next]_vars PROVE PasswordInv'
  OBVIOUS
<1>1. ASSUME NEW r \in Requests, Start(r) PROVE PasswordInv' BY <1>1, StartInv
<1>2. ASSUME NEW r \in Requests, Step(r) PROVE PasswordInv'
  <2>1. CASE LoginTime(r) \/ LoginTimeDeleted(r) \/ AtDrop(r) BY <2>1, LoginTimeInv
  <2>2. CASE AtSet(r) \/ RtSet(r) BY <2>2, SetStepInv
  <2>3. CASE \/ WriteUpdate(r) \/ WriteScanTok(r) \/ WriteDelTok(r)
             \/ WriteScanRef(r) \/ WriteDelRef(r) \/ WriteUncache(r)
    BY <2>3, WriteStepInv
  <2>4. CASE Commit(r)
    <3>1. CASE lock[req[r].user] = r BY <2>4, <3>1, CommitStep
    <3>2. CASE lock[req[r].user] # r BY <2>4, <3>2, ReleaseInv DEF Commit
    <3> QED BY <3>1, <3>2
  <2> QED BY <1>2, <2>1, <2>2, <2>3, <2>4, QuietStepInv DEF Step
<1>3. ASSUME NEW r \in Requests, Abort(r) PROVE PasswordInv'
  BY <1>3, ReleaseInv DEF Abort
<1>4. CASE Environment \/ UNCHANGED vars
  <2>1. /\ UNCHANGED <<row, lock, sess, outdated, req>>
        /\ tok' \subseteq tok /\ ref' \subseteq ref
    BY <1>4 DEF Environment, Revoke, ExpireToken, ExpireRefresh, ExpireCache, vars
  <2> QED BY <2>1, QuietStep DEF Undisturbed
<1> QED BY <1>1, <1>2, <1>3, <1>4 DEF Next

LEMMA InitInv == Init => PasswordInv
<1> SUFFICES ASSUME Init PROVE PasswordInv OBVIOUS
<1>1. PcMatchesOp BY IdleType DEF Init, PcMatchesOp
<1>2. \A r \in Requests : req[r].pc = "idle" /\ req[r].op = "auth" BY DEF Init, Idle
<1>3. OwnsItsSession /\ LoginHoldsLock /\ NewSessionNotOutdated
  BY <1>2 DEF OwnsItsSession, LoginHoldsLock, NewSessionNotOutdated, Creating, AtPcs, RtPcs
<1>4. AccessKeysEnded /\ RefreshKeysEnded
  BY <1>2 DEF AccessKeysEnded, RefreshKeysEnded
<1>5. KeysAreIssued /\ LockedRowIsLive /\ PasswordChangeEndsLogins
  BY DEF Init, KeysAreIssued, LockedRowIsLive, PasswordChangeEndsLogins
<1> QED BY <1>1, <1>3, <1>4, <1>5 DEF PasswordInv

\* The invariant that makes PasswordChangeEndsLogins inductive holds of every
\* behaviour: update_login_time and the writers of the row exclude each other
\* through the row lock, and the prefix deletions leave no login's key behind.
THEOREM PasswordInvHolds == Spec => []PasswordInv
<1>1. Spec => []TypeInv BY InitTypeInv, NextTypeInv, PTL DEF Spec
<1>2. TypeInv /\ PasswordInv /\ [Next]_vars => PasswordInv' BY NextTypeInv, NextInv
<1> QED BY InitInv, <1>1, <1>2, PTL DEF Spec

\* A password change or a deletion that has committed (update_password and
\* delete in user_service.py) leaves no key of a session a login created
\* before it, however many logins and refreshes it overlapped.
THEOREM LoginsEndWithPassword == Spec => []PasswordChangeEndsLogins
<1>1. PasswordInv => PasswordChangeEndsLogins BY DEF PasswordInv
<1> QED BY <1>1, PasswordInvHolds, PTL

=============================================================================
