CONSTANTS
  n1 = n1
  n2 = n2
  n3 = n3
  Names <- MCNames
SPECIFICATION Spec
PROPERTY ForeignCgroupPreserved
