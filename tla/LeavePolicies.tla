------------------------------ MODULE LeavePolicies ------------------------------
(***************************************************************************)
(* What leave an employee is entitled to and the balance rows that grant   *)
(* it: HR names leaves under a category (LeaveCategoryPolicyService),      *)
(* retires leave types, hires and moves employees, and each of them has    *)
(* LeaveService.initializeBalances fill in the rows that are missing.      *)
(* Each action is what a request does between two awaits.  A leave type is *)
(* known by its unique name; days and other settings are left out.         *)
(***************************************************************************)
EXTENDS Common

CONSTANTS
    People, Categories,
    Types,        \* names of leave types, without a special rule
    PolicyDesks,  \* requests about policies under way at a time
    StaffDesks    \* requests about employees under way at a time

ASSUME DesksAssumption ==
    PolicyDesks \cap StaffDesks = {} /\ Null \notin Categories \cup Types \cup People

VARIABLES
    offered,   \* LeaveType.isActive, Null for no row
    policies,  \* LeaveCategoryPolicy
    category,  \* Employee.leaveCategoryId, Null for no employee; all are ACTIVE
    rows,      \* LeaveBalance of the current year
    asking,    \* the running requests, Null for none
    missed       \* history: rows a request was to look at and did not, as it
               \* failed or died, or that no request was to look at

policyVars == <<offered, policies, category, rows, asking, missed>>

Desks == PolicyDesks \cup StaffDesks
Balances == People \X Types

Ask ==
    [at : {"FIND_TYPE", "CREATE_TYPE", "FIND_POLICY", "CREATE_POLICY", "WRITE_EMPLOYEE",
           "READ_TYPES", "READ_STAFF", "READ_POLICIES", "FIND_BALANCE", "CREATE_BALANCE"},
     who : SUBSET People, kinds : SUBSET Types,  \* whom and what it is for; at
                                                \* CREATE_BALANCE the row it found missing
     of : Categories \cup {Null},
     changed : BOOLEAN,                          \* the category was another when read
     staff : [People -> Categories \cup {Null}], \* the employees it read
     todo : SUBSET Balances]                     \* the rows it has still to look at

ASSUME NullAskAssumption == Null \notin Ask /\ Null \notin BOOLEAN

\* What refers to a leave type refers to a row that is there.
PolicyTypeOK ==
    /\ offered \in [Types -> BOOLEAN \cup {Null}]
    /\ category \in [People -> Categories \cup {Null}]
    /\ policies \subseteq Categories \X {t \in Types : offered[t] # Null}
    /\ rows \subseteq People \X {t \in Types : offered[t] # Null}
    /\ asking \in [Desks -> Ask \cup {Null}]
    /\ missed \subseteq Balances

Nobody == [p \in People |-> Null]

PolicyInit ==
    /\ offered = [t \in Types |-> Null]
    /\ policies = {}
    /\ category = Nobody
    /\ rows = {}
    /\ asking = [d \in Desks |-> Null]
    /\ missed = {}

AskAt(d, at) == asking[d] # Null /\ asking[d].at = at
NewAsk(at, who, kinds, of) ==
    [at |-> at, who |-> who, kinds |-> kinds, of |-> of, changed |-> TRUE,
     staff |-> Nobody, todo |-> {}]
Goes(d, s) == asking' = [asking EXCEPT ![d] = s]
GoesTo(d, at) == asking' = [asking EXCEPT ![d].at = at]
Filling(who, kinds) == NewAsk("READ_TYPES", who, kinds, Null)

\* The rows a request will look at, or may.
Covered(d) ==
    CASE asking[d] = Null \/ AskAt(d, "FIND_TYPE") \/ AskAt(d, "CREATE_TYPE")
              \/ AskAt(d, "FIND_POLICY") \/ AskAt(d, "CREATE_POLICY")
              \/ AskAt(d, "WRITE_EMPLOYEE") -> {}
      [] AskAt(d, "READ_TYPES") \/ AskAt(d, "READ_STAFF") \/ AskAt(d, "READ_POLICIES") ->
            asking[d].who \X asking[d].kinds
      [] AskAt(d, "FIND_BALANCE") \/ AskAt(d, "CREATE_BALANCE") -> asking[d].todo

-----------------------------------------------------------------------------
(* LeaveCategoryPolicyService. *)

StartQuickAdd(d, c, t) ==
    /\ asking[d] = Null
    /\ Goes(d, NewAsk("FIND_TYPE", People, {t}, c))
    /\ UNCHANGED <<offered, policies, category, rows, missed>>

\* create(): of a leave type there is.
StartCreatePolicy(d, c, t) ==
    /\ asking[d] = Null /\ offered[t] # Null
    /\ Goes(d, NewAsk("FIND_POLICY", People, {t}, c))
    /\ UNCHANGED <<offered, policies, category, rows, missed>>

\* Whether it is still offered does not matter.
FindType(d) ==
    /\ AskAt(d, "FIND_TYPE")
    /\ \E t \in asking[d].kinds :
          GoesTo(d, IF offered[t] = Null THEN "CREATE_TYPE" ELSE "FIND_POLICY")
    /\ UNCHANGED <<offered, policies, category, rows, missed>>

\* A type or a policy that somebody created meanwhile ends the request in an error.
CreateType(d) ==
    /\ AskAt(d, "CREATE_TYPE")
    /\ \E t \in asking[d].kinds :
          IF offered[t] # Null THEN Goes(d, Null) /\ UNCHANGED offered
          ELSE GoesTo(d, "FIND_POLICY") /\ offered' = [offered EXCEPT ![t] = TRUE]
    /\ UNCHANGED <<policies, category, rows, missed>>

FindPolicy(d) ==
    /\ AskAt(d, "FIND_POLICY")
    /\ \E t \in asking[d].kinds :
          IF <<asking[d].of, t>> \in policies THEN Goes(d, Null) ELSE GoesTo(d, "CREATE_POLICY")
    /\ UNCHANGED <<offered, policies, category, rows, missed>>

\* Slip: no backfill of the balances.
CreatePolicyAlone(d) ==
    /\ AskAt(d, "CREATE_POLICY")
    /\ policies' = policies \cup ({asking[d].of} \X asking[d].kinds)
    /\ Goes(d, Null)
    /\ UNCHANGED <<offered, category, rows, missed>>

CreatePolicy(d) ==
    /\ AskAt(d, "CREATE_POLICY")
    /\ \E t \in asking[d].kinds :
          IF <<asking[d].of, t>> \in policies THEN Goes(d, Null) /\ UNCHANGED policies
          ELSE /\ policies' = policies \cup {<<asking[d].of, t>>}
               /\ Goes(d, Filling(People, {t}))
    /\ UNCHANGED <<offered, category, rows, missed>>

RemovePolicy(c, t) ==
    /\ <<c, t>> \in policies
    /\ policies' = policies \ {<<c, t>>}
    /\ UNCHANGED <<offered, category, rows, asking, missed>>

-----------------------------------------------------------------------------
(* LeaveTypesService. *)

RemovedType == FALSE

RemoveType(t) ==
    /\ offered[t] # Null
    /\ offered' = [offered EXCEPT ![t] = RemovedType]
    /\ UNCHANGED <<policies, category, rows, asking, missed>>

\* create(), or update() to isActive: nothing is filled in.
OfferType(t) ==
    /\ offered[t] # TRUE
    /\ offered' = [offered EXCEPT ![t] = TRUE]
    /\ missed' = missed \cup ((People \X {t}) \ rows)
    /\ UNCHANGED <<policies, category, rows, asking>>

-----------------------------------------------------------------------------
(* EmployeesService. *)

Hire(d, p, c) ==
    /\ asking[d] = Null /\ category[p] = Null
    /\ category' = [category EXCEPT ![p] = c]
    /\ Goes(d, Filling({p}, Types))
    /\ UNCHANGED <<offered, policies, rows, missed>>

StartMove(d, p, c) ==
    /\ asking[d] = Null /\ category[p] # Null
    /\ Goes(d, [NewAsk("WRITE_EMPLOYEE", {p}, Types, c) EXCEPT !.changed = (c # category[p])])
    /\ UNCHANGED <<offered, policies, category, rows, missed>>

\* Nothing is filled in for an employee found to be in that category already,
\* even if another request moved him out of it meanwhile.
WriteEmployee(d) ==
    /\ AskAt(d, "WRITE_EMPLOYEE")
    /\ \E p \in asking[d].who :
          /\ category' = [category EXCEPT ![p] = asking[d].of]
          /\ Goes(d, IF asking[d].changed THEN Filling({p}, Types) ELSE Null)
          /\ missed' = IF ~asking[d].changed /\ category[p] # asking[d].of
                     THEN missed \cup (({p} \X Types) \ rows) ELSE missed
    /\ UNCHANGED <<offered, policies, rows>>

-----------------------------------------------------------------------------
(* LeaveService.initializeBalances. *)

\* The Sync Leave Balances button.
StartInitialize(d) ==
    /\ asking[d] = Null
    /\ Goes(d, Filling(People, Types))
    /\ UNCHANGED <<offered, policies, category, rows, missed>>

ReadTypes(d) ==
    /\ AskAt(d, "READ_TYPES")
    /\ asking' = [asking EXCEPT ![d].at = "READ_STAFF",
                                ![d].kinds = {t \in @ : offered[t] = TRUE}]
    /\ UNCHANGED <<offered, policies, category, rows, missed>>

ReadStaff(d) ==
    /\ AskAt(d, "READ_STAFF")
    /\ asking' = [asking EXCEPT ![d].at = "READ_POLICIES",
          ![d].staff = [p \in People |-> IF p \in asking[d].who THEN category[p] ELSE Null]]
    /\ UNCHANGED <<offered, policies, category, rows, missed>>

\* What a request does next with these rows to look at.
LookAt(d, todo) ==
    Goes(d, IF todo = {} THEN Null ELSE [NewAsk("FIND_BALANCE", {}, {}, Null) EXCEPT !.todo = todo])

ReadPolicies(d) ==
    /\ AskAt(d, "READ_POLICIES")
    /\ LookAt(d, {b \in asking[d].who \X asking[d].kinds :
                     <<asking[d].staff[b[1]], b[2]>> \in policies})
    /\ UNCHANGED <<offered, policies, category, rows, missed>>

\* The queries name no order.
FindBalance(d) ==
    /\ AskAt(d, "FIND_BALANCE")
    /\ \E b \in asking[d].todo :
          /\ IF b \in rows THEN LookAt(d, asking[d].todo \ {b})
             ELSE Goes(d, [asking[d] EXCEPT !.at = "CREATE_BALANCE", !.who = {b[1]}, !.kinds = {b[2]}])
          /\ missed' = missed \ ({b} \cap rows)
    /\ UNCHANGED <<offered, policies, category, rows>>

\* A row that somebody created meanwhile ends the whole fill.
CreateBalance(d) ==
    /\ AskAt(d, "CREATE_BALANCE")
    /\ \E b \in asking[d].who \X asking[d].kinds :
          LET rest == asking[d].todo \ {b}
          IN  /\ IF b \in rows THEN Goes(d, Null) /\ missed' = (missed \cup rest) \ {b}
                 ELSE LookAt(d, rest) /\ missed' = missed \ {b}
              /\ rows' = rows \cup {b}
    /\ UNCHANGED <<offered, policies, category>>

ServerDiesAsking ==
    /\ \E d \in Desks : asking[d] # Null
    /\ asking' = [d \in Desks |-> Null]
    /\ missed' = missed \cup ((UNION {Covered(d) : d \in Desks}) \ rows)
    /\ UNCHANGED <<offered, policies, category, rows>>

PolicyNext ==
    \/ \E d \in PolicyDesks :
          \/ \E c \in Categories, t \in Types : StartQuickAdd(d, c, t) \/ StartCreatePolicy(d, c, t)
          \/ FindType(d) \/ CreateType(d) \/ FindPolicy(d) \/ CreatePolicy(d)
          \/ StartInitialize(d)
    \/ \E d \in StaffDesks :
          \/ \E p \in People, c \in Categories : Hire(d, p, c) \/ StartMove(d, p, c)
          \/ WriteEmployee(d)
    \/ \E d \in Desks :
          ReadTypes(d) \/ ReadStaff(d) \/ ReadPolicies(d) \/ FindBalance(d) \/ CreateBalance(d)
    \/ \E t \in Types : \/ RemoveType(t) \/ OfferType(t)
                        \/ \E c \in Categories : RemovePolicy(c, t)
    \/ ServerDiesAsking

PolicySpec == PolicyInit /\ [][PolicyNext]_policyVars

-----------------------------------------------------------------------------
(* Properties. *)

Entitled == {b \in Balances : offered[b[2]] = TRUE /\ <<category[b[1]], b[2]>> \in policies}

\* backfillBalancesFor, EmployeesService.update lines 230-235 and the Sync Leave
\* Balances button: however HR's requests about policies and about employees
\* overlap, an employee has a balance of every leave of his category, unless a
\* request failed or died half-way, or the type was offered again; a fill that
\* gets to the row makes up for that too.
EntitledHaveRows ==
    Entitled \subseteq rows \cup missed \cup UNION {Covered(d) : d \in Desks}
=============================================================================
