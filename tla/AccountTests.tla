---------------------------- MODULE AccountTests ----------------------------
(***************************************************************************)
(* The tests of auth/mod.rs as scenarios of Accounts: the requests a test  *)
(* sends, the answers it asserts of the last of them, the rows it then     *)
(* counts.  A lock that a test expires by an UPDATE expires by waiting.    *)
(* The tests of the rate limits are left out.                              *)
(***************************************************************************)
EXTENDS Accounts

Nobody == [users |-> {}, attempts |-> << >>]

Email == [local |-> "user", domain |-> <<"example", "com">>]
Right == [word |-> "right", len |-> 11]
Wrong == [word |-> "wrong", len |-> 10]

Register(email, password) ==
    [op |-> "register", body |-> [email |-> email, password |-> password]]
Login(password) ==
    [op |-> "login", body |-> [email |-> Email, password |-> password]]
Refresh(kind, jti) == [op |-> "refresh", body |-> [kind |-> kind, jti |-> jti]]
WaitFor(time) == [op |-> "wait", body |-> time]

Times(n, request) == [i \in 1 .. n |-> request]

(* Whatever was sent before, the last requests are answered as asserts says *)
Test(asked, asserts, counts) ==
    [asked |-> asked, asserts |-> asserts, counts |-> counts]

Uncounted == << >>
Registered(asked, asserts) ==
    Test(<<Register(Email, Right)>> \o asked, asserts, Uncounted)

FirstJti == 102    \* of a login that follows a registration: the second id

-----------------------------------------------------------------------------
RegisterTests ==
    {Test(<<Register(Email, Right)>>, <<Is(201)>>, Uncounted),
     Registered(<<Register(Email, Wrong)>>, <<Is(409)>>)}

RegisterRefusedTests ==
    {Test(<<Register(email, Right)>>, <<Is(422)>>, Uncounted) :
        email \in {[local |-> "", domain |-> <<"">>],
                   [local |-> "notanemail", domain |-> <<"">>]}}
    \cup {Test(<<Register(Email, [word |-> "short", len |-> 5])>>, <<Is(422)>>, Uncounted)}

LoginTests ==
    {Registered(<<Login(Right)>>, <<Is(200)>>),
     Registered(<<Login(Wrong)>>, <<Is(401)>>),
     Test(<<Login(Wrong)>>, <<Is(401)>>, Uncounted)}

RefreshTests ==
    {Registered(<<Login(Right), Refresh("refresh", FirstJti)>>, <<IsRows(200, 1)>>),
     Registered(<<Login(Right)>> \o Times(2, Refresh("refresh", FirstJti)), <<Is(200), Is(401)>>),
     Test(<<Refresh("access", 0)>>, <<Is(401)>>, Uncounted),
     Test(<<Refresh("garbled", 0)>>, <<Is(401)>>, Uncounted),
     Test(<<Register(Email, Right), Login(Right)>>, << >>, [sessions |-> 1])}

LockoutTests ==
    {Registered(Times(10, Login(Wrong)) \o <<Login(Right)>>, <<Is(401)>>),
     Registered(Times(9, Login(Wrong)) \o <<Login(Right)>>, <<Is(200)>>),
     Registered(Times(10, Login(Wrong)) \o <<WaitFor(LockTime), Login(Right)>>, <<Is(200)>>),
     Test(<<Register(Email, Right)>> \o Times(9, Login(Wrong)) \o <<Login(Right), Login(Wrong)>>,
          << >>, [failures |-> 1])}

CountTests ==
    {Test(<<Register(Email, Right)>> \o Times(3, Login(Wrong)), << >>, [failures |-> 3]),
     Test(<<Register(Email, Right)>> \o Times(5, Login(Wrong)) \o <<Login(Right)>>,
          << >>, [attempts |-> 0])}

StructuredErrorTests ==
    {Registered(<<Login(Wrong)>>, <<IsError(401, "invalid_credentials")>>),
     Registered(<<Register(Email, Wrong)>>, <<IsError(409, "email_taken")>>)}

Tests ==
    RegisterTests \cup RegisterRefusedTests \cup LoginTests \cup RefreshTests
        \cup LockoutTests \cup CountTests \cup StructuredErrorTests
=============================================================================
