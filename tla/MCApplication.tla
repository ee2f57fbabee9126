---------------------------- MODULE MCApplication ---------------------------
(***************************************************************************)
(* Five applications: a module imported twice, whose pool stays private; a *)
(* circular import; a controller that needs another module's private       *)
(* provider; an interface with two implementations; a guard nobody added.  *)
(***************************************************************************)
EXTENDS Application

Empty == [imports |-> <<>>, provides |-> <<>>, exports |-> {}, controller |-> "none",
          needs |-> {}, route |-> "-", guards |-> <<>>]

DB == [Empty EXCEPT !.provides = <<[types |-> {"pool"}, needs |-> {"config"}],
                                   [types |-> {"db", "Store"}, needs |-> {"pool"}]>>,
                    !.exports = {"Store"}]
Users == [Empty EXCEPT !.imports = <<"db">>,
                       !.provides = <<[types |-> {"users"}, needs |-> {"Store"}]>>,
                       !.controller = "route", !.needs = {"users"},
                       !.route = "/users", !.guards = <<"Auth", "Roles">>]
Orders == [Empty EXCEPT !.imports = <<"db">>, !.controller = "route", !.route = "/orders"]
AppModule == [Empty EXCEPT !.imports = <<"users", "orders">>]

App(users, orders, db) ==
    [tops |-> {"app"}, cyclic |-> FALSE, singletons |-> {"config"},
     impls |-> [t \in {"Store", "Reader"} |-> {"db", "replica"}],
     modules |-> [m \in {"app", "users", "orders", "db"} |->
                    CASE m = "app" -> AppModule [] m = "users" -> users
                      [] m = "orders" -> orders [] m = "db" -> db]]

Sound == [App(Users, Orders, DB) EXCEPT !.tops = {"app", "orders"}]
Circle == [App([Users EXCEPT !.imports = <<"db", "orders">>],
               [Orders EXCEPT !.imports = <<"users">>], DB) EXCEPT !.cyclic = TRUE]
Private == App(Users, [Orders EXCEPT !.needs = {"pool"}], DB)
Ambiguous ==
    App([Users EXCEPT !.provides = <<[types |-> {"users"}, needs |-> {"Reader"}]>>], Orders,
        [DB EXCEPT !.provides = Append(@, [types |-> {"replica"}, needs |-> {}]),
                   !.exports = {"db", "replica"}])
Unguarded == App([Users EXCEPT !.guards = <<"Admin">>], Orders, DB)

MCConfigs == {[logger |-> TRUE, recovery |-> TRUE], [logger |-> TRUE, recovery |-> FALSE]}
MCGraphs == {Sound, Circle, Private, Ambiguous, Unguarded}
=============================================================================
