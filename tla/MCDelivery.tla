------------------------------ MODULE MCDelivery ------------------------------
(* Values for the constants of Delivery. *)
EXTENDS Delivery

\* Every profile config.Validate allows.
AllServices == <<"mariadb", "nginx", "php-fpm", "postgresql", "ssh", "tor">>

\* An alert about a measured check and two about checks that run commands: one
\* of a tool that may hang, one that runs late.
SomeAlerts == <<"filesystem.disk", "apt.check", "postgresql">>

SectionOf == [c \in ToSet(SomeAlerts) |->
                IF c = "apt.check" THEN "WARNING" ELSE "CRITICAL"]

\* Two CRITICAL alerts fit in one message, alerts of two sections do not.
SizeOf == [c \in ToSet(SomeAlerts) |-> 2]
================================================================================
