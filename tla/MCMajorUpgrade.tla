---------------------------- MODULE MCMajorUpgrade ----------------------------
EXTENDS MajorUpgrade, TLC

CONSTANTS odoo18, odoo19a, odoo19b

MCImages == {odoo18, odoo19a, odoo19b}

MCMajors == {18, 19}

\* Two builds of one major, and one of another.
MCMajorOf == [i \in MCImages |-> IF i = odoo18 THEN 18 ELSE 19]
==============================================================================
