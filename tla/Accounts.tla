-------------------------------- MODULE Accounts -------------------------------
(***************************************************************************)
(* UsersService: registration by email or phone number, and Google login,  *)
(* which registers on first use.  Email and phone number are unique keys.  *)
(* Passwords, tokens and Google's answer touch no row; generated user      *)
(* names end in a nanoid and do not meet.                                  *)
(***************************************************************************)
EXTENDS ShopTables

Contact(email, phone) == [email |-> email, phone |-> phone]

Holds(column, value) ==
  value # None /\ \E a \in DOMAIN db.accounts : db.accounts[a][column] = value

\* Mutation: the phone number is left to the unique key.
OnlyEmailFree(row) == ~Holds("email", row.email)

\* Email already registered; phone number already registered.
ContactsFree(row) == ~Holds("email", row.email) /\ ~Holds("phone", row.phone)

\* create: the lookups; the user name and the password's hash take more
\* awaits before the save.
Register(r) ==
  \E email, phone \in Contacts \cup {None} :
    /\ email # None \/ phone # None
    /\ ContactsFree(Contact(email, phone))
    /\ AcceptInsert(r, "register",
                    [Idle EXCEPT !.pc = "insertAccount", !.row = Contact(email, phone)], 1, {})

\* googleLogin: an address without an account is given one; one with an
\* account is answered with a token.
GoogleLogin(r) ==
  \E email \in Contacts :
    /\ ~Holds("email", email)
    /\ AcceptInsert(r, "googleLogin",
                    [Idle EXCEPT !.pc = "insertAccount", !.row = Contact(email, None)], 1, {})

\* The unique keys as MySQL checks them at the insert.
Unique(row) == ~Holds("email", row.email) /\ ~Holds("phone", row.phone)

InsertAccount(r) ==
  LET q == req[r] IN
    /\ At(r, "insertAccount") /\ Unique(q.row)
    /\ Commit(r, Saved("accounts", NewId(q), q.row))

\* The insert is refused, after the lookups had found the contact free.
RefuseAccount(r) ==
  /\ At(r, "insertAccount") /\ ~Unique(req[r].row)
  /\ Finish(r)
  /\ history' = history \cup {{"lateRefusal"}}
  /\ UNCHANGED <<db, ids, scene>>

AccountsRequest(r) == Register(r) \/ GoogleLogin(r)
AccountsStep(r) == InsertAccount(r) \/ RefuseAccount(r)
=============================================================================
