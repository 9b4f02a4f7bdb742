CONSTANTS
  odoo18 = odoo18
  odoo19a = odoo19a
  odoo19b = odoo19b
  Images <- MCImages
  Majors <- MCMajors
  MajorOf <- MCMajorOf
  None = None
  MaxEdits = 1
  MaxFailures = 1
  MaxChanges = 2
SPECIFICATION UpgradeSpec
INVARIANTS TypeOK JobsInOrder SuccessIsEarned
PROPERTIES ResultIsKept RehearsalEnds CrossingIsEarned CrossingIsOfTheImage
