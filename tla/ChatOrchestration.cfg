SPECIFICATION Spec
CONSTANTS
  hall = hall
  studio = studio
  None = None
  Contracts <- MCContracts
  Company <- MCCompany
  Questions <- MCQuestions
INVARIANTS
  
  NoGhost
  NamedContractOnly
  ReferenceKept

  
