\* One lost packet never prevents the attach; the program ends whatever the controller does.
SPECIFICATION FairSpec
CONSTANT Chips <- LiveChips
PROPERTIES Terminates Attaches
